---- MODULE Spec2Model ----
(***************************************************************************)
(* Event-sourced time tracking: the tracking log, the state queries of     *)
(* TrackingRepository, the operations of TimeManagementService and the     *)
(* replay of ReportData.                                                   *)
(***************************************************************************)
EXTENDS Integers, Sequences, FiniteSets, TLC

VARIABLES
    events,       \* the tracking table: events[i] is the row with id i
    projects,     \* the project table: projects[p] is the row with id p
    last_active,  \* user.last_active of every row of the user table
    clock,        \* the latest value of datetime.now() that a call has used
    tie_order,    \* the order in which the database returns rows that
                  \* ORDER BY leaves unordered
    resolution,   \* of the clock: "fine" when no two calls read one value,
                  \* "coarse" when a call may read the value of the last
    call,         \* the latest service call: the method and its arguments
    result,       \* what that call returned or raised
    workers       \* the calls in progress, when callers run side by side:
                  \* workers[w] is the position and the locals of caller w

vars ==
    <<events, projects, last_active, clock, tie_order, resolution, call,
      result, workers>>

\* what the calls run on: it does not change
platform == <<tie_order, resolution>>

(* ------------------------------------------------------------------ *)
(* Bounds                                                              *)
(* ------------------------------------------------------------------ *)

\* datetime.now() stays within 1..MaxTime
MaxTime == 5

\* the same, when two callers run side by side
MaxStepTime == 4

\* with a coarse clock calls are made while the tracking table has fewer
\* rows than MaxRows
MaxRows == 4

\* with state queries called between the operations, operations are called
\* until the clock shows MaxQueryTime
MaxQueryTime == 3

(* ------------------------------------------------------------------ *)
(* Data                                                                *)
(* ------------------------------------------------------------------ *)

\* Python's None for an optional id or an optional timestamp (ids and
\* timestamps start at 1)
None == 0

WORKDAY_START == "Workday Start"
WORKDAY_END == "Workday End"
PROJECT_START == "Project Start"
PROJECT_END == "Project End"
PROJECT_RESUME == "Project Resume"
BREAK_START == "Break Start"
BREAK_END == "Break End"

\* ids of the rows of the user table
Users == {1, 2}

\* ids a caller may pass: 3 is the id of no user
UserIds == Users \cup {3}

ProjectNames == {"A", "B"}

\* project_name = None of end_project
NoName == "None"

\* message = None of a tracking row
NoMessage == "None"

\* the message a caller gives to start_break
Messages == {"Coffee break"}

Tracking(user_id, action, date_time, project_id, message) ==
    [user_id |-> user_id, action |-> action, date_time |-> date_time,
     project_id |-> project_id, message |-> message]

Project(name, user_id) ==
    [name |-> name, user_id |-> user_id, tracking_count |-> 0]

Min(S) == CHOOSE x \in S : \A y \in S : x <= y

Max(S) == CHOOSE x \in S : \A y \in S : y <= x

(* ------------------------------------------------------------------ *)
(* State queries                                                       *)
(* ------------------------------------------------------------------ *)

\* The queries order by date_time alone. Which of several rows of the
\* greatest date_time comes first is left to the database, and SQLite
\* decides it by the plan of the statement: the rows come by ascending id
\* when it sorts the rows found through another index (its plan without
\* statistics), by descending id when it walks the index on date_time
\* backwards (its plan with statistics).
TieOrders == {"id asc", "id desc"}

\* .order_by(Tracking.date_time.desc()) ... .first() over the rows S # {}:
\* the id of the row that comes first
first_desc(log, S) ==
    LET newest == {i \in S : \A j \in S : log[j].date_time <= log[i].date_time}
    IN  IF tie_order = "id asc" THEN Min(newest) ELSE Max(newest)

\* has_open_day without "Tracking.user_id == user_id"
has_open_day_of_anyone(log, user_id) ==
    LET S == {i \in DOMAIN log :
                log[i].action \in {WORKDAY_START, WORKDAY_END}}
    IN  IF S = {} THEN FALSE
        ELSE log[first_desc(log, S)].action = WORKDAY_START

\* has_open_day without "if last_workday_action is None: return False",
\* answering that the last workday row is not a WorkdayEnd
has_open_day_unless_ended(log, user_id) ==
    LET S == {i \in DOMAIN log :
                /\ log[i].user_id = user_id
                /\ log[i].action \in {WORKDAY_START, WORKDAY_END}}
    IN  IF S = {} THEN TRUE
        ELSE log[first_desc(log, S)].action # WORKDAY_END

has_open_day(log, user_id) ==
    LET S == {i \in DOMAIN log :
                /\ log[i].user_id = user_id
                /\ log[i].action \in {WORKDAY_START, WORKDAY_END}}
    IN  IF S = {} THEN FALSE
        ELSE log[first_desc(log, S)].action = WORKDAY_START

\* is_any_project_active that also reads BreakStart rows and takes a
\* project for paused, not active, during a break
is_any_project_active_unless_paused(log, user_id) ==
    LET S == {i \in DOMAIN log :
                /\ log[i].user_id = user_id
                /\ log[i].action \in {PROJECT_START, PROJECT_END,
                                       PROJECT_RESUME, BREAK_START}}
    IN  IF S = {} THEN FALSE
        ELSE log[first_desc(log, S)].action \in {PROJECT_START, PROJECT_RESUME}

is_any_project_active(log, user_id) ==
    LET S == {i \in DOMAIN log :
                /\ log[i].user_id = user_id
                /\ log[i].project_id # None
                /\ log[i].action \in {PROJECT_START, PROJECT_END, PROJECT_RESUME}}
    IN  IF S = {} THEN FALSE
        ELSE log[first_desc(log, S)].action \in {PROJECT_START, PROJECT_RESUME}

is_project_active(log, user_id, project_id) ==
    LET S == {i \in DOMAIN log :
                /\ log[i].user_id = user_id
                /\ log[i].project_id = project_id
                /\ log[i].action \in {PROJECT_START, PROJECT_END, PROJECT_RESUME}}
    IN  IF S = {} THEN FALSE
        ELSE log[first_desc(log, S)].action \in {PROJECT_START, PROJECT_RESUME}

\* get_active_project_id without "Tracking.user_id == user_id"
get_active_project_id_of_anyone(log, user_id) ==
    LET S == {i \in DOMAIN log :
                /\ log[i].project_id # None
                /\ log[i].action \in {PROJECT_START, PROJECT_END, PROJECT_RESUME}}
    IN  IF S = {} THEN None
        ELSE IF log[first_desc(log, S)].action
                    \in {PROJECT_START, PROJECT_RESUME}
        THEN log[first_desc(log, S)].project_id
        ELSE None

get_active_project_id(log, user_id) ==
    LET S == {i \in DOMAIN log :
                /\ log[i].user_id = user_id
                /\ log[i].project_id # None
                /\ log[i].action \in {PROJECT_START, PROJECT_END, PROJECT_RESUME}}
    IN  IF S = {} THEN None
        ELSE IF log[first_desc(log, S)].action
                    \in {PROJECT_START, PROJECT_RESUME}
        THEN log[first_desc(log, S)].project_id
        ELSE None

\* is_break_active without "Tracking.user_id == user_id"
is_break_active_of_anyone(log, user_id) ==
    LET S == {i \in DOMAIN log : log[i].action \in {BREAK_START, BREAK_END}}
    IN  IF S = {} THEN FALSE
        ELSE log[first_desc(log, S)].action = BREAK_START

is_break_active(log, user_id) ==
    LET S == {i \in DOMAIN log :
                /\ log[i].user_id = user_id
                /\ log[i].action \in {BREAK_START, BREAK_END}}
    IN  IF S = {} THEN FALSE
        ELSE log[first_desc(log, S)].action = BREAK_START

\* get_last_project_before_break whose second query is ordered by
\* date_time ascending: the first project of the day instead of the last
get_first_project_before_break(log, user_id) ==
    LET B == {i \in DOMAIN log :
                /\ log[i].user_id = user_id
                /\ log[i].action \in {BREAK_START, BREAK_END}}
        last_break_action == first_desc(log, B)
        S == {i \in DOMAIN log :
                /\ log[i].user_id = user_id
                /\ log[i].project_id # None
                /\ log[i].date_time < log[last_break_action].date_time
                /\ log[i].action \in {PROJECT_START, PROJECT_RESUME}}
    IN  IF B = {} THEN None
        ELSE IF log[last_break_action].action # BREAK_START THEN None
        ELSE IF S = {} THEN None
        ELSE log[Min(S)].project_id

get_last_project_before_break(log, user_id) ==
    LET B == {i \in DOMAIN log :
                /\ log[i].user_id = user_id
                /\ log[i].action \in {BREAK_START, BREAK_END}}
        last_break_action == first_desc(log, B)
        S == {i \in DOMAIN log :
                /\ log[i].user_id = user_id
                /\ log[i].project_id # None
                /\ log[i].date_time < log[last_break_action].date_time
                /\ log[i].action \in {PROJECT_START, PROJECT_RESUME}}
    IN  IF B = {} THEN None
        ELSE IF log[last_break_action].action # BREAK_START THEN None
        ELSE IF S = {} THEN None
        ELSE log[first_desc(log, S)].project_id

\* get_by_name without "Project.user_id == user_id"
get_by_name_of_anyone(table, project_name, user_id) ==
    LET S == {p \in DOMAIN table : table[p].name = project_name}
    IN  IF S = {} THEN None ELSE Min(S)

\* ProjectRepository.get_by_name: .first() of the projects of that name and
\* user; the statement has no ORDER BY and the table no index, so the rows
\* come as the table is scanned, by ascending id
get_by_name(table, project_name, user_id) ==
    LET S == {p \in DOMAIN table :
                table[p].name = project_name /\ table[p].user_id = user_id}
    IN  IF S = {} THEN None ELSE Min(S)

(* ------------------------------------------------------------------ *)
(* What a service call hands back                                      *)
(* ------------------------------------------------------------------ *)

\* a call of a method of TimeManagementService; an argument the method
\* does not take is None
Call(op, user_id, project_name, auto_create, message) ==
    [op |-> op, user_id |-> user_id, project_name |-> project_name,
     auto_create |-> auto_create, message |-> message]

\* the call returned a dict
Returned(success, message, timestamp, project_id, ended_project_id, closed_project, closed_break) ==
    [success |-> success, raised |-> FALSE, message |-> message,
     timestamp |-> timestamp, project_id |-> project_id,
     ended_project_id |-> ended_project_id,
     closed_project |-> closed_project, closed_break |-> closed_break]

\* the call raised ValueError(message)
Raised(message) ==
    [success |-> FALSE, raised |-> TRUE, message |-> message,
     timestamp |-> None, project_id |-> None, ended_project_id |-> None,
     closed_project |-> FALSE, closed_break |-> FALSE]

\* raise ValueError(message) before anything was added: the store stays
Raise(message) ==
    /\ result' = Raised(message)
    /\ UNCHANGED <<events, projects, last_active, clock>>

\* the values datetime.now() can return to the next call: later than every
\* value it has returned, or with a coarse clock the last value again
Nows ==
    {t \in 1..MaxTime : t > clock \/ (resolution = "coarse" /\ t = clock)}

(* ------------------------------------------------------------------ *)
(* TimeManagementService                                               *)
(* ------------------------------------------------------------------ *)

\* project_repo.update that writes nothing
update_tracking_count_lost(table, project_id, tracking_count) == table

\* project_repo.update(project.id, {"tracking_count": ...})
update_tracking_count(table, project_id, tracking_count) ==
    [table EXCEPT ![project_id].tracking_count = tracking_count]

start_day(user_id) ==
    IF user_id \notin Users
    THEN Raise("User not found")
    ELSE IF has_open_day(events, user_id)
    THEN Raise("The workday has already started")
    ELSE \E now \in Nows :
         /\ events' = Append(events,
                Tracking(user_id, WORKDAY_START, now, None, NoMessage))
         /\ last_active' = [last_active EXCEPT ![user_id] = now]
         /\ clock' = now
         /\ result' = Returned(TRUE, "Workday started", now, None, None,
                FALSE, FALSE)
         /\ UNCHANGED projects

\* end_day that reads the clock again for each row it adds
end_day_reading_clock_per_row(user_id) ==
    IF user_id \notin Users
    THEN Raise("User not found")
    ELSE IF ~has_open_day(events, user_id)
    THEN Raise("No open workday to end")
    ELSE \E now \in Nows : \E later \in Nows :
        LET ev1 == IF is_break_active(events, user_id)
                   THEN Append(events, Tracking(user_id, BREAK_END, now,
                            None, "Auto-closed at end of day"))
                   ELSE events
            active_project_id == get_active_project_id(ev1, user_id)
            ev2 == IF active_project_id # None
                   THEN Append(ev1, Tracking(user_id, PROJECT_END, now,
                            active_project_id, "Auto-closed at end of day"))
                   ELSE ev1
            ev3 == Append(ev2,
                        Tracking(user_id, WORKDAY_END, later, None, NoMessage))
        IN  /\ now <= later
            /\ events' = ev3
            /\ last_active' = [last_active EXCEPT ![user_id] = later]
            /\ clock' = later
            /\ result' = Returned(TRUE, "Workday ended", now, None, None,
                    active_project_id # None, is_break_active(ev3, user_id))
            /\ UNCHANGED projects

end_day(user_id) ==
    IF user_id \notin Users
    THEN Raise("User not found")
    ELSE IF ~has_open_day(events, user_id)
    THEN Raise("No open workday to end")
    ELSE \E now \in Nows :
        LET ev1 == IF is_break_active(events, user_id)
                   THEN Append(events, Tracking(user_id, BREAK_END, now,
                            None, "Auto-closed at end of day"))
                   ELSE events
            active_project_id == get_active_project_id(ev1, user_id)
            ev2 == IF active_project_id # None
                   THEN Append(ev1, Tracking(user_id, PROJECT_END, now,
                            active_project_id, "Auto-closed at end of day"))
                   ELSE ev1
            ev3 == Append(ev2,
                        Tracking(user_id, WORKDAY_END, now, None, NoMessage))
        IN  /\ events' = ev3
            /\ last_active' = [last_active EXCEPT ![user_id] = now]
            /\ clock' = now
            /\ result' = Returned(TRUE, "Workday ended", now, None, None,
                    active_project_id # None, is_break_active(ev3, user_id))
            /\ UNCHANGED projects

start_project(user_id, project_name, auto_create) ==
    IF user_id \notin Users
    THEN Raise("User not found")
    ELSE IF ~has_open_day(events, user_id)
    THEN Raise("No open workday. Please start your day first.")
    ELSE IF get_by_name(projects, project_name, user_id) = None
            /\ ~auto_create
    THEN Raise("Project not found")
    ELSE
    LET found == get_by_name(projects, project_name, user_id)
        table == IF found = None
                 THEN Append(projects, Project(project_name, user_id))
                 ELSE projects
        project_id == IF found = None THEN Len(projects) + 1 ELSE found
        active_project_id == get_active_project_id(events, user_id)
    IN  IF active_project_id # None /\ active_project_id = project_id
        THEN /\ result' = Returned(FALSE, "Project is already active",
                    None, None, None, FALSE, FALSE)
             /\ projects' = table
             /\ UNCHANGED <<events, last_active, clock>>
        ELSE \E now \in Nows :
            LET ev1 == IF active_project_id # None
                       THEN Append(events, Tracking(user_id, PROJECT_END,
                                now, active_project_id,
                                "Auto-ended for project switch"))
                       ELSE events
                ev2 == IF is_break_active(ev1, user_id)
                       THEN Append(ev1, Tracking(user_id, BREAK_END,
                                now, None, "Auto-ended for project start"))
                       ELSE ev1
            IN  /\ events' = Append(ev2, Tracking(user_id,
                        PROJECT_START, now, project_id, NoMessage))
                /\ projects' = update_tracking_count(table, project_id,
                        table[project_id].tracking_count + 1)
                /\ last_active' = [last_active EXCEPT ![user_id] = now]
                /\ clock' = now
                /\ result' = Returned(TRUE, "Started working", now,
                        project_id, active_project_id, FALSE, FALSE)

\* end_project from "now = datetime.now(timezone.utc)" on: the ProjectEnd row
\* and the return
\* end_project without "user_repo.update(user_id, {"last_active": now})"
end_project_commit_without_last_active(user_id, project_id) ==
    \E now \in Nows :
    /\ events' = Append(events,
            Tracking(user_id, PROJECT_END, now, project_id, NoMessage))
    /\ clock' = now
    /\ result' = Returned(TRUE, "Ended work", now,
            project_id, None, FALSE, FALSE)
    /\ UNCHANGED <<projects, last_active>>

end_project_commit(user_id, project_id) ==
    \E now \in Nows :
    /\ events' = Append(events,
            Tracking(user_id, PROJECT_END, now, project_id, NoMessage))
    /\ last_active' = [last_active EXCEPT ![user_id] = now]
    /\ clock' = now
    /\ result' = Returned(TRUE, "Ended work", now,
            project_id, None, FALSE, FALSE)
    /\ UNCHANGED projects

end_project(user_id, project_name) ==
    IF user_id \notin Users
    THEN Raise("User not found")
    ELSE IF project_name # NoName
    THEN LET project == get_by_name(projects, project_name, user_id)
         IN  IF project = None
             THEN Raise("Project not found")
             ELSE IF ~is_project_active(events, user_id, project)
             THEN Raise("Project is not active")
             ELSE end_project_commit(user_id, project)
    ELSE LET project_id == get_active_project_id(events, user_id)
         IN  IF project_id = None
             THEN Raise("No active project to end")
             ELSE end_project_commit(user_id, project_id)

start_break(user_id, message) ==
    IF user_id \notin Users
    THEN Raise("User not found")
    ELSE IF ~is_any_project_active(events, user_id)
    THEN Raise("No active project to pause for break")
    ELSE IF is_break_active(events, user_id)
    THEN Raise("A break is already active")
    ELSE \E now \in Nows :
         /\ events' = Append(events,
                Tracking(user_id, BREAK_START, now, None, message))
         /\ last_active' = [last_active EXCEPT ![user_id] = now]
         /\ clock' = now
         /\ result' = Returned(TRUE, "Break started", now, None,
                None, FALSE, FALSE)
         /\ UNCHANGED projects

\* end_break that also resumes the project that was paused
end_break_resuming(user_id) ==
    IF user_id \notin Users
    THEN Raise("User not found")
    ELSE IF ~is_break_active(events, user_id)
    THEN Raise("No active break to end")
    ELSE \E now \in Nows :
         LET project_id == get_last_project_before_break(events, user_id)
             ended == Append(events,
                        Tracking(user_id, BREAK_END, now, None, NoMessage))
         IN  /\ events' = IF project_id = None THEN ended
                          ELSE Append(ended, Tracking(user_id, PROJECT_RESUME,
                                    now, project_id, NoMessage))
             /\ last_active' = [last_active EXCEPT ![user_id] = now]
             /\ clock' = now
             /\ result' = Returned(TRUE, "Break ended", now, None, None,
                    FALSE, FALSE)
             /\ UNCHANGED projects

\* end_break that turns the BreakStart row into the BreakEnd row by an
\* update instead of adding a row
end_break_in_place(user_id) ==
    IF user_id \notin Users
    THEN Raise("User not found")
    ELSE IF ~is_break_active(events, user_id)
    THEN Raise("No active break to end")
    ELSE \E now \in Nows :
         LET B == {i \in DOMAIN events :
                    /\ events[i].user_id = user_id
                    /\ events[i].action \in {BREAK_START, BREAK_END}}
             last_break_action == first_desc(events, B)
         IN  /\ events' = [events EXCEPT ![last_break_action] =
                    Tracking(user_id, BREAK_END, now, None, NoMessage)]
             /\ last_active' = [last_active EXCEPT ![user_id] = now]
             /\ clock' = now
             /\ result' = Returned(TRUE, "Break ended", now, None, None,
                    FALSE, FALSE)
             /\ UNCHANGED projects

end_break(user_id) ==
    IF user_id \notin Users
    THEN Raise("User not found")
    ELSE IF ~is_break_active(events, user_id)
    THEN Raise("No active break to end")
    ELSE \E now \in Nows :
         /\ events' = Append(events,
                Tracking(user_id, BREAK_END, now, None, NoMessage))
         /\ last_active' = [last_active EXCEPT ![user_id] = now]
         /\ clock' = now
         /\ result' = Returned(TRUE, "Break ended", now, None, None,
                FALSE, FALSE)
         /\ UNCHANGED projects

\* continue_project without "if not tracking_repo.is_break_active(user_id)"
continue_project_unchecked(user_id) ==
    IF user_id \notin Users
    THEN Raise("User not found")
    ELSE LET project_id == get_last_project_before_break(events, user_id)
         IN  IF project_id = None
             THEN Raise("No recent project to resume")
             ELSE IF project_id \notin DOMAIN projects
             THEN Raise("Previous project not found")
             ELSE \E now \in Nows :
                  /\ events' = Append(Append(events,
                         Tracking(user_id, BREAK_END, now, None,
                             "Auto-ended for project resume")),
                         Tracking(user_id, PROJECT_RESUME, now, project_id,
                             NoMessage))
                  /\ last_active' = [last_active EXCEPT ![user_id] = now]
                  /\ clock' = now
                  /\ result' = Returned(TRUE, "Resumed work", now,
                         project_id, None, FALSE, FALSE)
                  /\ UNCHANGED projects

continue_project(user_id) ==
    IF user_id \notin Users
    THEN Raise("User not found")
    ELSE IF ~is_break_active(events, user_id)
    THEN Raise("No active break to end")
    ELSE LET project_id == get_last_project_before_break(events, user_id)
         IN  IF project_id = None
             THEN Raise("No recent project to resume")
             ELSE IF project_id \notin DOMAIN projects
             THEN Raise("Previous project not found")
             ELSE \E now \in Nows :
                  /\ events' = Append(Append(events,
                         Tracking(user_id, BREAK_END, now, None,
                             "Auto-ended for project resume")),
                         Tracking(user_id, PROJECT_RESUME, now, project_id,
                             NoMessage))
                  /\ last_active' = [last_active EXCEPT ![user_id] = now]
                  /\ clock' = now
                  /\ result' = Returned(TRUE, "Resumed work", now,
                         project_id, None, FALSE, FALSE)
                  /\ UNCHANGED projects

(* ------------------------------------------------------------------ *)
(* The engine called by one caller at a time                           *)
(* ------------------------------------------------------------------ *)

\* the callers that run side by side
Workers == {1, 2}

TheUser == Min(Users)

\* the project the callers work on
StepNames == {"A"}

\* the methods the callers call
StepOps == {"start_day", "end_day", "start_project", "start_break"}

\* no call in progress
Idle ==
    [status |-> "idle", op |-> "none", project_name |-> NoName,
     pc |-> "none", now |-> None, project_id |-> None,
     created |-> FALSE, active_project_id |-> None, tracking_count |-> 0,
     appended |-> {}]

\* empty tables but for the users; nothing called yet
Init ==
    /\ events = <<>>
    /\ projects = <<>>
    /\ last_active = [u \in Users |-> None]
    /\ clock = 0
    /\ tie_order \in TieOrders
    /\ resolution = "fine"
    /\ call = Call("none", None, NoName, FALSE, NoMessage)
    /\ result = Returned(FALSE, "", None, None, None, FALSE, FALSE)
    /\ workers = [w \in Workers |-> Idle]

\* the same on a platform whose clock is coarse
InitCoarse ==
    /\ events = <<>>
    /\ projects = <<>>
    /\ last_active = [u \in Users |-> None]
    /\ clock = 0
    /\ tie_order \in TieOrders
    /\ resolution = "coarse"
    /\ call = Call("none", None, NoName, FALSE, NoMessage)
    /\ result = Returned(FALSE, "", None, None, None, FALSE, FALSE)
    /\ workers = [w \in Workers |-> Idle]

\* calls are made while the clock has a value left to return
CanCall ==
    /\ clock < MaxTime
    /\ resolution = "coarse" => Len(events) < MaxRows

StartDay ==
    /\ CanCall
    /\ \E u \in UserIds :
        /\ call' = Call("start_day", u, NoName, FALSE, NoMessage)
        /\ start_day(u)
        /\ UNCHANGED <<platform, workers>>

EndDay ==
    /\ CanCall
    /\ \E u \in UserIds :
        /\ call' = Call("end_day", u, NoName, FALSE, NoMessage)
        /\ end_day(u)
        /\ UNCHANGED <<platform, workers>>

StartProject ==
    /\ CanCall
    /\ \E u \in UserIds, name \in ProjectNames, auto \in BOOLEAN :
        /\ call' = Call("start_project", u, name, auto, NoMessage)
        /\ start_project(u, name, auto)
        /\ UNCHANGED <<platform, workers>>

EndProject ==
    /\ CanCall
    /\ \E u \in UserIds, name \in ProjectNames \cup {NoName} :
        /\ call' = Call("end_project", u, name, FALSE, NoMessage)
        /\ end_project(u, name)
        /\ UNCHANGED <<platform, workers>>

StartBreak ==
    /\ CanCall
    /\ \E u \in UserIds, m \in Messages :
        /\ call' = Call("start_break", u, NoName, FALSE, m)
        /\ start_break(u, m)
        /\ UNCHANGED <<platform, workers>>

EndBreak ==
    /\ CanCall
    /\ \E u \in UserIds :
        /\ call' = Call("end_break", u, NoName, FALSE, NoMessage)
        /\ end_break(u)
        /\ UNCHANGED <<platform, workers>>

ContinueProject ==
    /\ CanCall
    /\ \E u \in UserIds :
        /\ call' = Call("continue_project", u, NoName, FALSE, NoMessage)
        /\ continue_project(u)
        /\ UNCHANGED <<platform, workers>>

Next ==
    \/ StartDay
    \/ EndDay
    \/ StartProject
    \/ EndProject
    \/ StartBreak
    \/ EndBreak
    \/ ContinueProject

Spec == Init /\ [][Next]_vars

SpecCoarse == InitCoarse /\ [][Next]_vars

(* ------------------------------------------------------------------ *)
(* The state queries of TrackingRepository, called by themselves       *)
(* ------------------------------------------------------------------ *)

StateQueries ==
    {"has_open_day", "is_any_project_active", "is_project_active",
     "get_active_project_id", "get_last_project_before_break",
     "is_break_active"}

ProjectIds == 1..2

\* a call of a state query; project_id is None for all but is_project_active
Query(op, user_id, project_id) ==
    [op |-> op, user_id |-> user_id, project_id |-> project_id]

Answered(answer) == [answer |-> answer]

Answer(op, user_id, project_id) ==
    CASE op = "has_open_day" -> has_open_day(events, user_id)
      [] op = "is_any_project_active" -> is_any_project_active(events, user_id)
      [] op = "is_project_active" ->
            is_project_active(events, user_id, project_id)
      [] op = "get_active_project_id" -> get_active_project_id(events, user_id)
      [] op = "get_last_project_before_break" ->
            get_last_project_before_break(events, user_id)
      [] op = "is_break_active" -> is_break_active(events, user_id)

\* each query opens a session, runs its SELECT statements and returns
StateQuery ==
    \E op \in StateQueries : \E u \in Users :
    \E p \in IF op = "is_project_active" THEN ProjectIds ELSE {None} :
        /\ call' = Query(op, u, p)
        /\ result' = Answered(Answer(op, u, p))
        /\ UNCHANGED <<events, projects, last_active, clock, platform, workers>>

NextQueries ==
    \/ StartDay /\ clock' <= MaxQueryTime
    \/ EndDay /\ clock' <= MaxQueryTime
    \/ StartProject /\ clock' <= MaxQueryTime
    \/ EndProject /\ clock' <= MaxQueryTime
    \/ StartBreak /\ clock' <= MaxQueryTime
    \/ EndBreak /\ clock' <= MaxQueryTime
    \/ ContinueProject /\ clock' <= MaxQueryTime
    \/ StateQuery

SpecQueries == Init /\ [][NextQueries]_vars

(* ------------------------------------------------------------------ *)
(* The HTTP endpoints of the engine                                    *)
(* ------------------------------------------------------------------ *)

HTTP_200_OK == 200

HTTP_400_BAD_REQUEST == 400

HTTP_404_NOT_FOUND == 404

HTTP_500_INTERNAL_SERVER_ERROR == 500

\* the status of the response of an endpoint whose service call ended with
\* res: every ValueError becomes 400, every other exception 500. The
\* endpoint reads result["timestamp"], which the dict that start_project
\* returns for the project that is already active does not have: KeyError.
status_code(res) ==
    IF res.raised THEN HTTP_400_BAD_REQUEST
    ELSE IF res.timestamp = None THEN HTTP_500_INTERNAL_SERVER_ERROR
    ELSE HTTP_200_OK

(* ------------------------------------------------------------------ *)
(* The engine called by two callers side by side                       *)
(* ------------------------------------------------------------------ *)

\* Every repository call is a statement of its own against the database:
\* BaseRepository.add and BaseRepository.update commit before they return,
\* and a query holds no lock once it has returned. So a call of a service
\* method is a sequence of steps, one per repository call, and the steps of
\* two callers interleave. The callers act for one user.

\* caller w is about to make the repository call pc of method op
At(w, op, pc) ==
    /\ workers[w].status = "running"
    /\ workers[w].op = op
    /\ workers[w].pc = pc

\* caller w goes on with the locals rec
Goto(w, rec) == workers' = [workers EXCEPT ![w] = rec]

\* the method returns or raises: the call is over
Done(w) == workers' = [workers EXCEPT ![w] = Idle]

\* tracking_repo.add(row) by caller w: the row is committed
add_tracking(w, row, pc) ==
    /\ events' = Append(events, row)
    /\ Goto(w, [workers[w] EXCEPT
            !.pc = pc, !.appended = @ \cup {Len(events) + 1}])

\* a caller calls a method; of two callers that are idle, the first
Begin(w) ==
    /\ workers[w].status = "idle"
    /\ \A v \in Workers : v < w => workers[v].status # "idle"
    /\ \E op \in StepOps, name \in StepNames :
        Goto(w, [Idle EXCEPT
            !.status = "running", !.op = op,
            !.project_name = IF op = "start_project" THEN name ELSE NoName,
            !.pc = IF op = "start_break"
                   THEN "is_any_project_active" ELSE "has_open_day"])
    /\ UNCHANGED <<events, projects, last_active, clock, platform, call,
            result>>

\* user_repo.get and tracking_repo.has_open_day of start_day, end_day and
\* start_project; start_day and end_day then read the clock
step_has_open_day(w) ==
    /\ workers[w].status = "running"
    /\ workers[w].pc = "has_open_day"
    /\ LET open == has_open_day(events, TheUser)
           op == workers[w].op
       IN  IF (op = "start_day" /\ open) \/ (op # "start_day" /\ ~open)
           THEN Done(w) /\ UNCHANGED clock
           ELSE IF op = "start_project"
           THEN /\ Goto(w, [workers[w] EXCEPT !.pc = "get_by_name"])
                /\ UNCHANGED clock
           ELSE /\ clock < MaxStepTime
                /\ clock' = clock + 1
                /\ Goto(w, [workers[w] EXCEPT
                        !.now = clock + 1,
                        !.pc = IF op = "start_day"
                               THEN "add_workday_start"
                               ELSE "is_break_active"])
    /\ UNCHANGED <<events, projects, last_active, platform, call, result>>

\* start_day: tracking_repo.add of the WorkdayStart row
step_add_workday_start(w) ==
    /\ At(w, "start_day", "add_workday_start")
    /\ add_tracking(w, Tracking(TheUser, WORKDAY_START, workers[w].now, None,
            NoMessage), "update_last_active")
    /\ UNCHANGED <<projects, last_active, clock, platform, call, result>>

\* start_break: user_repo.get, is_any_project_active, is_break_active and
\* the clock
step_is_any_project_active(w) ==
    /\ At(w, "start_break", "is_any_project_active")
    /\ IF ~is_any_project_active(events, TheUser)
            \/ is_break_active(events, TheUser)
       THEN Done(w) /\ UNCHANGED clock
       ELSE /\ clock < MaxStepTime
            /\ clock' = clock + 1
            /\ Goto(w, [workers[w] EXCEPT
                    !.now = clock + 1, !.pc = "add_break_start"])
    /\ UNCHANGED <<events, projects, last_active, platform, call, result>>

\* start_break: tracking_repo.add of the BreakStart row
step_add_break_start(w) ==
    /\ At(w, "start_break", "add_break_start")
    /\ add_tracking(w, Tracking(TheUser, BREAK_START, workers[w].now, None,
            NoMessage), "update_last_active")
    /\ UNCHANGED <<projects, last_active, clock, platform, call, result>>

\* start_project: project_repo.get_by_name
step_get_by_name(w) ==
    /\ At(w, "start_project", "get_by_name")
    /\ LET project ==
            get_by_name(projects, workers[w].project_name, TheUser)
       IN  Goto(w, [workers[w] EXCEPT
                !.project_id = project,
                !.pc = IF project = None
                       THEN "add_project" ELSE "get_active_project_id"])
    /\ UNCHANGED <<events, projects, last_active, clock, platform, call,
            result>>

\* start_project: project_repo.add of the project that was not found
step_add_project(w) ==
    /\ At(w, "start_project", "add_project")
    /\ projects' = Append(projects, Project(workers[w].project_name, TheUser))
    /\ Goto(w, [workers[w] EXCEPT
            !.project_id = Len(projects) + 1,
            !.created = TRUE,
            !.pc = "get_active_project_id"])
    /\ UNCHANGED <<events, last_active, clock, platform, call, result>>

\* tracking_repo.get_active_project_id of start_project, which reads the
\* clock before it, and of end_day
step_get_active_project_id(w) ==
    /\ workers[w].status = "running"
    /\ workers[w].pc = "get_active_project_id"
    /\ LET active_project_id == get_active_project_id(events, TheUser)
       IN  IF workers[w].op = "start_project"
           THEN IF active_project_id # None
                        /\ active_project_id = workers[w].project_id
                THEN Done(w) /\ UNCHANGED clock
                ELSE /\ clock < MaxStepTime
                     /\ clock' = clock + 1
                     /\ Goto(w, [workers[w] EXCEPT
                            !.now = clock + 1,
                            !.active_project_id = active_project_id,
                            !.pc = IF active_project_id # None
                                   THEN "add_project_end"
                                   ELSE "is_break_active"])
           ELSE /\ UNCHANGED clock
                /\ Goto(w, [workers[w] EXCEPT
                        !.active_project_id = active_project_id,
                        !.pc = IF active_project_id # None
                               THEN "add_project_end"
                               ELSE "add_workday_end"])
    /\ UNCHANGED <<events, projects, last_active, platform, call, result>>

\* tracking_repo.add of the ProjectEnd row of the active project
step_add_project_end(w) ==
    /\ workers[w].status = "running"
    /\ workers[w].pc = "add_project_end"
    /\ add_tracking(w,
            Tracking(TheUser, PROJECT_END, workers[w].now,
                workers[w].active_project_id,
                IF workers[w].op = "start_project"
                THEN "Auto-ended for project switch"
                ELSE "Auto-closed at end of day"),
            IF workers[w].op = "start_project"
            THEN "is_break_active" ELSE "add_workday_end")
    /\ UNCHANGED <<projects, last_active, clock, platform, call, result>>

\* tracking_repo.is_break_active of start_project and of end_day
step_is_break_active(w) ==
    /\ workers[w].status = "running"
    /\ workers[w].pc = "is_break_active"
    /\ Goto(w, [workers[w] EXCEPT
            !.pc = IF is_break_active(events, TheUser)
                   THEN "add_break_end"
                   ELSE IF workers[w].op = "start_project"
                   THEN "add_project_start"
                   ELSE "get_active_project_id"])
    /\ UNCHANGED <<events, projects, last_active, clock, platform, call,
            result>>

\* tracking_repo.add of the BreakEnd row of the active break
step_add_break_end(w) ==
    /\ workers[w].status = "running"
    /\ workers[w].pc = "add_break_end"
    /\ add_tracking(w,
            Tracking(TheUser, BREAK_END, workers[w].now, None,
                IF workers[w].op = "start_project"
                THEN "Auto-ended for project start"
                ELSE "Auto-closed at end of day"),
            IF workers[w].op = "start_project"
            THEN "add_project_start" ELSE "get_active_project_id")
    /\ UNCHANGED <<projects, last_active, clock, platform, call, result>>

\* start_project: tracking_repo.add of the ProjectStart row
step_add_project_start(w) ==
    /\ At(w, "start_project", "add_project_start")
    /\ add_tracking(w,
            Tracking(TheUser, PROJECT_START, workers[w].now,
                workers[w].project_id, NoMessage),
            IF workers[w].created
            THEN "update_tracking_count" ELSE "read_tracking_count")
    /\ UNCHANGED <<projects, last_active, clock, platform, call, result>>

\* start_project: "project.tracking_count" of a project that was found is
\* read from the database, the commit before it having expired the object
\* (a project that was created is a copy made when it was, with count 0)
step_read_tracking_count(w) ==
    /\ At(w, "start_project", "read_tracking_count")
    /\ Goto(w, [workers[w] EXCEPT
            !.tracking_count = projects[workers[w].project_id].tracking_count,
            !.pc = "update_tracking_count"])
    /\ UNCHANGED <<events, projects, last_active, clock, platform, call,
            result>>

\* start_project: project_repo.update of tracking_count
step_update_tracking_count(w) ==
    /\ At(w, "start_project", "update_tracking_count")
    /\ projects' = update_tracking_count(projects, workers[w].project_id,
            workers[w].tracking_count + 1)
    /\ Goto(w, [workers[w] EXCEPT !.pc = "update_last_active"])
    /\ UNCHANGED <<events, last_active, clock, platform, call, result>>

\* end_day: tracking_repo.add of the WorkdayEnd row
step_add_workday_end(w) ==
    /\ At(w, "end_day", "add_workday_end")
    /\ add_tracking(w, Tracking(TheUser, WORKDAY_END, workers[w].now, None,
            NoMessage), "update_last_active")
    /\ UNCHANGED <<projects, last_active, clock, platform, call, result>>

\* user_repo.update of last_active, and the return
step_update_last_active(w) ==
    /\ workers[w].status = "running"
    /\ workers[w].pc = "update_last_active"
    /\ last_active' = [last_active EXCEPT ![TheUser] = workers[w].now]
    /\ Done(w)
    /\ UNCHANGED <<events, projects, clock, platform, call, result>>

\* after the first row of the call was added, the repository call the
\* caller is about to make raises (the storage fails), or the process of the
\* caller dies: DatabaseManager.session rolls back, which undoes nothing of
\* what add and update have committed. The caller calls no more.
Fail(w) ==
    /\ workers[w].status = "running"
    /\ workers[w].appended # {}
    /\ Goto(w, [Idle EXCEPT
            !.status = "failed", !.op = workers[w].op,
            !.pc = workers[w].pc, !.appended = workers[w].appended])
    /\ UNCHANGED <<events, projects, last_active, clock, platform, call,
            result>>

NextSteps ==
    \E w \in Workers :
        \/ Begin(w)
        \/ step_has_open_day(w)
        \/ step_add_workday_start(w)
        \/ step_is_any_project_active(w)
        \/ step_add_break_start(w)
        \/ step_get_by_name(w)
        \/ step_add_project(w)
        \/ step_get_active_project_id(w)
        \/ step_add_project_end(w)
        \/ step_is_break_active(w)
        \/ step_add_break_end(w)
        \/ step_add_project_start(w)
        \/ step_read_tracking_count(w)
        \/ step_update_tracking_count(w)
        \/ step_add_workday_end(w)
        \/ step_update_last_active(w)
        \/ Fail(w)

SpecSteps == Init /\ [][NextSteps]_vars

(* ------------------------------------------------------------------ *)
(* The daily report                                                    *)
(* ------------------------------------------------------------------ *)

\* get_daily_report: the rows of the user, sorted by date_time with a
\* stable sort of the rows as get_all returns them (by id), each with the
\* name of its project. Every date_time of the model is of the target date.
day_entries(log, table, user_id) ==
    LET S == {i \in DOMAIN log : log[i].user_id = user_id}
        rank(i) == Cardinality({j \in S :
                        \/ log[j].date_time < log[i].date_time
                        \/ log[j].date_time = log[i].date_time /\ j < i})
        at(k) == CHOOSE i \in S : rank(i) = k - 1
    IN  [k \in 1..Cardinality(S) |->
            [id |-> at(k),
             timestamp |-> log[at(k)].date_time,
             action |-> log[at(k)].action,
             project_name |->
                IF log[at(k)].project_id # None
                        /\ log[at(k)].project_id \in DOMAIN table
                THEN table[log[at(k)].project_id].name
                ELSE NoName,
             message |-> log[at(k)].message]]

\* ReportData.__init__: nothing calculated yet
ReportData ==
    [sessions |-> <<>>, breaks |-> <<>>,
     workday_start |-> None, workday_end |-> None,
     current_project |-> NoName, current_start |-> None,
     break_start |-> None]

\* a session whose duration is its end, not its end less its start
session_since_midnight(st, timestamp, ongoing) ==
    [project |-> st.current_project, start |-> st.current_start,
     end |-> timestamp, duration |-> timestamp, ongoing |-> ongoing]

\* self.sessions.append({...}) of the current project up to timestamp
session(st, timestamp, ongoing) ==
    [project |-> st.current_project, start |-> st.current_start,
     end |-> timestamp, duration |-> timestamp - st.current_start,
     ongoing |-> ongoing]

\* the body of the loop of _calculate where "Break Start" only sets
\* break_start and appends no session
calculate_step_without_pause(st, entry) ==
    LET timestamp == entry.timestamp
        open == st.current_project # NoName /\ st.current_start # None
    IN  CASE entry.action = WORKDAY_START ->
                [st EXCEPT !.workday_start = timestamp]
          [] entry.action = WORKDAY_END ->
                IF open
                THEN [st EXCEPT !.workday_end = timestamp,
                        !.sessions = Append(@, session(st, timestamp, FALSE)),
                        !.current_project = NoName,
                        !.current_start = None]
                ELSE [st EXCEPT !.workday_end = timestamp]
          [] entry.action \in {PROJECT_START, PROJECT_RESUME} ->
                [st EXCEPT !.current_project = entry.project_name,
                           !.current_start = timestamp]
          [] entry.action = PROJECT_END ->
                [st EXCEPT
                    !.sessions = IF open
                                 THEN Append(@, session(st, timestamp, FALSE))
                                 ELSE @,
                    !.current_project = NoName,
                    !.current_start = None]
          [] entry.action = BREAK_START ->
                [st EXCEPT !.break_start = timestamp]
          [] entry.action = BREAK_END ->
                [st EXCEPT
                    !.breaks = IF st.break_start # None
                               THEN Append(@, [start |-> st.break_start,
                                        end |-> timestamp,
                                        duration |-> timestamp - st.break_start])
                               ELSE @,
                    !.break_start = None]
          [] OTHER -> st

\* the body of the loop of _calculate where the duration of a break is
\* its end, not its end less its start
calculate_step_break_until(st, entry) ==
    LET timestamp == entry.timestamp
        open == st.current_project # NoName /\ st.current_start # None
    IN  CASE entry.action = WORKDAY_START ->
                [st EXCEPT !.workday_start = timestamp]
          [] entry.action = WORKDAY_END ->
                IF open
                THEN [st EXCEPT !.workday_end = timestamp,
                        !.sessions = Append(@, session(st, timestamp, FALSE)),
                        !.current_project = NoName,
                        !.current_start = None]
                ELSE [st EXCEPT !.workday_end = timestamp]
          [] entry.action \in {PROJECT_START, PROJECT_RESUME} ->
                [st EXCEPT !.current_project = entry.project_name,
                           !.current_start = timestamp]
          [] entry.action = PROJECT_END ->
                [st EXCEPT
                    !.sessions = IF open
                                 THEN Append(@, session(st, timestamp, FALSE))
                                 ELSE @,
                    !.current_project = NoName,
                    !.current_start = None]
          [] entry.action = BREAK_START ->
                [st EXCEPT
                    !.break_start = timestamp,
                    !.sessions = IF open
                                 THEN Append(@, session(st, timestamp, FALSE))
                                 ELSE @]
          [] entry.action = BREAK_END ->
                [st EXCEPT
                    !.breaks = IF st.break_start # None
                               THEN Append(@, [start |-> st.break_start,
                                        end |-> timestamp,
                                        duration |-> timestamp])
                               ELSE @,
                    !.break_start = None]
          [] OTHER -> st

\* the body of the loop of _calculate
calculate_step(st, entry) ==
    LET timestamp == entry.timestamp
        open == st.current_project # NoName /\ st.current_start # None
    IN  CASE entry.action = WORKDAY_START ->
                [st EXCEPT !.workday_start = timestamp]
          [] entry.action = WORKDAY_END ->
                IF open
                THEN [st EXCEPT !.workday_end = timestamp,
                        !.sessions = Append(@, session(st, timestamp, FALSE)),
                        !.current_project = NoName,
                        !.current_start = None]
                ELSE [st EXCEPT !.workday_end = timestamp]
          [] entry.action \in {PROJECT_START, PROJECT_RESUME} ->
                [st EXCEPT !.current_project = entry.project_name,
                           !.current_start = timestamp]
          [] entry.action = PROJECT_END ->
                [st EXCEPT
                    !.sessions = IF open
                                 THEN Append(@, session(st, timestamp, FALSE))
                                 ELSE @,
                    !.current_project = NoName,
                    !.current_start = None]
          [] entry.action = BREAK_START ->
                [st EXCEPT
                    !.break_start = timestamp,
                    !.sessions = IF open
                                 THEN Append(@, session(st, timestamp, FALSE))
                                 ELSE @]
          [] entry.action = BREAK_END ->
                [st EXCEPT
                    !.breaks = IF st.break_start # None
                               THEN Append(@, [start |-> st.break_start,
                                        end |-> timestamp,
                                        duration |-> timestamp - st.break_start])
                               ELSE @,
                    !.break_start = None]
          [] OTHER -> st

RECURSIVE calculate_loop(_, _, _)
\* "for entry in self.entries" from the k-th entry on
calculate_loop(st, entries, k) ==
    IF k > Len(entries) THEN st
    ELSE calculate_loop(calculate_step(st, entries[k]), entries, k + 1)

\* _calculate that does not mark the open session as ongoing
calculate_unmarked(entries, now) ==
    LET st == calculate_loop(ReportData, entries, 1)
    IN  IF st.current_project # NoName /\ st.current_start # None
        THEN [st EXCEPT !.sessions = Append(@, session(st, now, FALSE))]
        ELSE st

\* ReportData._calculate; now is what datetime.now() returns to it
calculate(entries, now) ==
    LET st == calculate_loop(ReportData, entries, 1)
    IN  IF st.current_project # NoName /\ st.current_start # None
        THEN [st EXCEPT !.sessions = Append(@, session(st, now, TRUE))]
        ELSE st

RECURSIVE total(_, _)
\* sum((x['duration'] for x in items), timedelta()) from the k-th item on
total(items, k) ==
    IF k > Len(items) THEN 0 ELSE items[k].duration + total(items, k + 1)

get_total_work_time(report) == total(report.sessions, 1)

get_total_break_time(report) == total(report.breaks, 1)

(* ------------------------------------------------------------------ *)
(* The project report                                                  *)
(* ------------------------------------------------------------------ *)

\* get_project_report: the rows of the user whose project_id is that of
\* the project, sorted by date_time with a stable sort of the rows as
\* get_all returns them (by id), each with the name of the project
project_entries(log, table, user_id, project_id) ==
    LET S == {i \in DOMAIN log :
                log[i].user_id = user_id /\ log[i].project_id = project_id}
        rank(i) == Cardinality({j \in S :
                        \/ log[j].date_time < log[i].date_time
                        \/ log[j].date_time = log[i].date_time /\ j < i})
        at(k) == CHOOSE i \in S : rank(i) = k - 1
    IN  [k \in 1..Cardinality(S) |->
            [id |-> at(k),
             timestamp |-> log[at(k)].date_time,
             action |-> log[at(k)].action,
             project_name |-> table[project_id].name,
             message |-> log[at(k)].message]]

\* ReportData.get_project_totals, for one project: the sum of the
\* durations of its sessions, 0 when it has none
get_project_totals(report, project) ==
    total(SelectSeq(report.sessions, LAMBDA x : x.project = project), 1)

(* ------------------------------------------------------------------ *)
(* Today's events                                                      *)
(* ------------------------------------------------------------------ *)

\* user_entries.sort(key=lambda e: e.date_time, reverse=True) of the rows
\* of the user as get_all returns them (by id): by descending date_time,
\* rows of one date_time staying in id order, as a stable sort leaves them
sorted_descending(log, user_id) ==
    LET S == {i \in DOMAIN log : log[i].user_id = user_id}
        rank(i) == Cardinality({j \in S :
                        \/ log[j].date_time > log[i].date_time
                        \/ log[j].date_time = log[i].date_time /\ j < i})
    IN  [k \in 1..Cardinality(S) |-> CHOOSE i \in S : rank(i) = k - 1]

\* the dictionary get_today_tracking appends for row i
today_entry(log, table, i) ==
    [id |-> i,
     user_id |-> log[i].user_id,
     action |-> log[i].action,
     project_name |->
        IF log[i].project_id # None /\ log[i].project_id \in DOMAIN table
        THEN table[log[i].project_id].name
        ELSE NoName,
     timestamp |-> log[i].date_time,
     message |-> log[i].message]

\* today_entries.reverse()
reverse(seq) == [k \in 1..Len(seq) |-> seq[Len(seq) + 1 - k]]

RECURSIVE today_loop(_, _, _, _, _)
\* the loop of get_today_tracking from the k-th of the sorted rows on,
\* and the reversal after it. It returns at a "Workday End" (no
\* "Workday Start" was found before it, since the loop stops at the first)
\* and stops at a "Workday Start"; every other row is appended.
today_loop(log, table, user_entries, k, today_entries) ==
    IF k > Len(user_entries) THEN reverse(today_entries)
    ELSE LET entry == log[user_entries[k]]
         IN  IF entry.action = WORKDAY_END THEN <<>>
             ELSE IF entry.action = WORKDAY_START
             THEN reverse(Append(today_entries,
                        today_entry(log, table, user_entries[k])))
             ELSE today_loop(log, table, user_entries, k + 1,
                        Append(today_entries,
                            today_entry(log, table, user_entries[k])))

\* GET /api/tracking/today
get_today_tracking(log, table, user_id) ==
    today_loop(log, table, sorted_descending(log, user_id), 1, <<>>)

(* ------------------------------------------------------------------ *)
(* The status view of the command line client                          *)
(* ------------------------------------------------------------------ *)

\* the loop of show_status over today's entries from the k-th on
RECURSIVE status_loop(_, _, _)
status_loop(today_entries, k, st) ==
    IF k > Len(today_entries) THEN st
    ELSE LET entry == today_entries[k]
             next ==
                CASE entry.action = BREAK_START ->
                        [on_break |-> TRUE, current_project |-> NoName,
                         current_project_start |-> None]
                  [] entry.action = BREAK_END ->
                        [st EXCEPT !.on_break = FALSE]
                  [] entry.action \in {PROJECT_START, PROJECT_RESUME} ->
                        [on_break |-> FALSE,
                         current_project |-> entry.project_name,
                         current_project_start |-> entry.timestamp]
                  [] entry.action = PROJECT_END ->
                        [st EXCEPT !.current_project = NoName,
                                   !.current_project_start = None]
                  [] OTHER -> st
         IN  status_loop(today_entries, k + 1, next)

\* sitr status: what it prints as the current activity of a user, from
\* GET /api/tracking/today
show_status(log, table, user_id) ==
    LET today_entries == get_today_tracking(log, table, user_id)
        st == status_loop(today_entries, 1,
                [on_break |-> FALSE, current_project |-> NoName,
                 current_project_start |-> None])
    IN  IF today_entries = <<>> THEN "No active workday"
        ELSE IF st.on_break THEN "On break"
        ELSE IF st.current_project # NoName /\ st.current_project_start # None
        THEN st.current_project
        ELSE "Not working on any project"

(* ------------------------------------------------------------------ *)
(* The state of a user as the design defines it: the most recent event *)
(* of a kind, events of one date_time taken in id order                *)
(* ------------------------------------------------------------------ *)

Latest(log, S) ==
    CHOOSE i \in S : \A j \in S :
        \/ log[j].date_time < log[i].date_time
        \/ log[j].date_time = log[i].date_time /\ j <= i

OfUser(log, u, actions) ==
    {i \in DOMAIN log : log[i].user_id = u /\ log[i].action \in actions}

DayOpen(log, u) ==
    LET S == OfUser(log, u, {WORKDAY_START, WORKDAY_END})
    IN  S # {} /\ log[Latest(log, S)].action = WORKDAY_START

BreakActive(log, u) ==
    LET S == OfUser(log, u, {BREAK_START, BREAK_END})
    IN  S # {} /\ log[Latest(log, S)].action = BREAK_START

ActiveProject(log, u) ==
    LET S == OfUser(log, u, {PROJECT_START, PROJECT_END, PROJECT_RESUME})
    IN  IF S # {} /\ log[Latest(log, S)].action \in {PROJECT_START, PROJECT_RESUME}
        THEN log[Latest(log, S)].project_id
        ELSE None

ProjectActive(log, u, p) ==
    LET S == {i \in OfUser(log, u, {PROJECT_START, PROJECT_END, PROJECT_RESUME}) :
                log[i].project_id = p}
    IN  S # {} /\ log[Latest(log, S)].action \in {PROJECT_START, PROJECT_RESUME}

\* the rows the step has appended
Appended == SubSeq(events', Len(events) + 1, Len(events'))

\* the step is a call of op for user u
Called(op, u) == call'.op = op /\ call'.user_id = u

StoreUnchanged == UNCHANGED <<events, projects, last_active>>

(* ------------------------------------------------------------------ *)
(* C1                                                                  *)
(* ------------------------------------------------------------------ *)

\* C1: start_day of an existing user succeeds exactly when the user has no
\* open day; after it succeeded has_open_day answers true, and it keeps
\* answering true until an end_day of that user succeeds, so that a second
\* start_day raises "already started" and appends nothing.
C1_StartDay ==
    [][\A u \in Users :
        /\ Called("start_day", u) =>
            /\ result'.success <=> ~DayOpen(events, u)
            /\ result'.success =>
                /\ has_open_day(events', u)
                /\ Len(Appended) = 1
            /\ ~result'.success =>
                /\ result'.raised
                /\ result'.message = "The workday has already started"
                /\ events' = events
        /\ (has_open_day(events, u)
                /\ ~(Called("end_day", u) /\ result'.success)) =>
            has_open_day(events', u)
      ]_vars

\* a second start_day has been refused while the day was open
C1_Witness ==
    /\ call.op = "start_day"
    /\ result.raised
    /\ result.message = "The workday has already started"
    /\ call.user_id \in Users
    /\ has_open_day(events, call.user_id)
    /\ Len(events) >= 2

(* ------------------------------------------------------------------ *)
(* C2                                                                  *)
(* ------------------------------------------------------------------ *)

\* C2: end_day of a user with an active project and an active break appends
\* exactly BreakEnd, ProjectEnd of the active project and WorkdayEnd, in
\* this order and with one timestamp, and has_open_day answers false after.
C2_EndDayClosesBoth ==
    [][\A u \in Users :
        (/\ Called("end_day", u)
         /\ result'.success
         /\ ActiveProject(events, u) # None
         /\ BreakActive(events, u)) =>
            /\ Len(Appended) = 3
            /\ Appended[1].action = BREAK_END
            /\ Appended[2].action = PROJECT_END
            /\ Appended[2].project_id = ActiveProject(events, u)
            /\ Appended[3].action = WORKDAY_END
            /\ \A k \in 1..3 :
                /\ Appended[k].date_time = result'.timestamp
                /\ Appended[k].user_id = u
            /\ ~has_open_day(events', u)
      ]_vars

\* end_day has closed the break and the project of the user
C2_Witness ==
    /\ call.op = "end_day"
    /\ result.success
    /\ result.closed_project
    /\ Len(events) >= 6
    /\ events[Len(events) - 2].action = BREAK_END
    /\ events[Len(events) - 2].user_id = call.user_id
    /\ events[Len(events) - 2].date_time = result.timestamp
    /\ events[Len(events) - 1].action = PROJECT_END
    /\ events[Len(events)].action = WORKDAY_END

(* ------------------------------------------------------------------ *)
(* C4                                                                  *)
(* ------------------------------------------------------------------ *)

\* C4: a call whose precondition does not hold raises and leaves events,
\* projects (so every tracking_count) and last_active as they were: start_day
\* with an open day, end_day and start_project without one, end_project of a
\* project that is not the active one, start_break without an active project
\* or during a break, end_break and continue_project without a break (which
\* raise "no active break"), and every call for an id of no user.
C4_FailedCallChangesNothing ==
    [][\A u \in UserIds :
        /\ (\E op \in {"start_day", "end_day", "start_project", "end_project",
                       "start_break", "end_break", "continue_project"} :
                Called(op, u) /\ u \notin Users) =>
            result'.raised /\ result'.message = "User not found"
        /\ (Called("start_day", u) /\ u \in Users /\ DayOpen(events, u)) =>
            result'.raised
        /\ (Called("end_day", u) /\ u \in Users /\ ~DayOpen(events, u)) =>
            result'.raised
        /\ (Called("start_project", u) /\ u \in Users /\ ~DayOpen(events, u)) =>
            result'.raised
        /\ (Called("end_project", u) /\ u \in Users
                /\ call'.project_name # NoName
                /\ ~\E p \in DOMAIN projects :
                        /\ projects[p].name = call'.project_name
                        /\ projects[p].user_id = u
                        /\ ProjectActive(events, u, p)) =>
            result'.raised
        /\ (Called("end_project", u) /\ u \in Users
                /\ call'.project_name = NoName
                /\ ActiveProject(events, u) = None) =>
            result'.raised
        /\ (Called("start_break", u) /\ u \in Users
                /\ (ActiveProject(events, u) = None \/ BreakActive(events, u))) =>
            result'.raised
        /\ (Called("end_break", u) /\ u \in Users /\ ~BreakActive(events, u)) =>
            result'.raised /\ result'.message = "No active break to end"
        /\ (Called("continue_project", u) /\ u \in Users
                /\ ~BreakActive(events, u)) =>
            result'.raised /\ result'.message = "No active break to end"
        /\ (call'.user_id = u /\ result'.raised) =>
            StoreUnchanged /\ clock' = clock
      ]_vars

\* continue_project has been refused for want of a break, after the user
\* had worked on a project
C4_Witness ==
    /\ call.op = "continue_project"
    /\ result.raised
    /\ result.message = "No active break to end"
    /\ call.user_id \in Users
    /\ ActiveProject(events, call.user_id) # None
    /\ projects # <<>>

(* ------------------------------------------------------------------ *)
(* C5                                                                  *)
(* ------------------------------------------------------------------ *)

\* C5: right after a start_project that ended another project (ProjectEnd
\* and ProjectStart of one timestamp), get_active_project_id answers the
\* started project and is_any_project_active answers true, whichever of the
\* rows of that timestamp the query meets first.
C5_HandoverQueries ==
    \A u \in Users :
        (/\ call.op = "start_project"
         /\ call.user_id = u
         /\ result.success
         /\ result.ended_project_id # None) =>
            /\ get_active_project_id(events, u) = result.project_id
            /\ is_any_project_active(events, u)

(* ------------------------------------------------------------------ *)
(* C8                                                                  *)
(* ------------------------------------------------------------------ *)

\* C8: a successful start_project of B while another project A is active
\* returns ended_project_id = A and appends ProjectEnd(A), BreakEnd exactly
\* when a break was active, ProjectStart(B), in this order and with one
\* timestamp; with no other project active it returns ended_project_id =
\* None and appends no ProjectEnd.
C8_Handover ==
    [][\A u \in Users :
        (Called("start_project", u) /\ result'.success) =>
            LET A == ActiveProject(events, u)
                B == result'.project_id
                n == Len(Appended)
            IN  /\ n >= 1
                /\ Appended[n].action = PROJECT_START
                /\ Appended[n].project_id = B
                /\ \A k \in 1..n : Appended[k].date_time = result'.timestamp
                /\ (A # None /\ A # B) =>
                    /\ result'.ended_project_id = A
                    /\ Appended[1].action = PROJECT_END
                    /\ Appended[1].project_id = A
                    /\ IF BreakActive(events, u)
                       THEN n = 3 /\ Appended[2].action = BREAK_END
                       ELSE n = 2
                /\ (A = None) =>
                    /\ result'.ended_project_id = None
                    /\ \A k \in 1..n : Appended[k].action # PROJECT_END
      ]_vars

(* ------------------------------------------------------------------ *)
(* C9                                                                  *)
(* ------------------------------------------------------------------ *)

\* the ProjectStart rows of project p
ProjectStarts(log, p) ==
    {i \in DOMAIN log : log[i].action = PROJECT_START /\ log[i].project_id = p}

\* C9: after every call each project's tracking_count is the number of its
\* ProjectStart rows; a successful start_project adds 1 to the count of its
\* project and leaves the other counts, and every other call (the refused
\* start of the active project and continue_project among them) leaves all
\* counts: no count ever decreases.
C9_TrackingCount ==
    [][/\ \A p \in DOMAIN projects' :
            projects'[p].tracking_count = Cardinality(ProjectStarts(events', p))
       /\ \A p \in DOMAIN projects :
            projects'[p].tracking_count =
                IF call'.op = "start_project" /\ result'.success
                        /\ result'.project_id = p
                THEN projects[p].tracking_count + 1
                ELSE projects[p].tracking_count
       /\ \A p \in DOMAIN projects' \ DOMAIN projects :
            projects'[p].tracking_count =
                IF call'.op = "start_project" /\ result'.success
                        /\ result'.project_id = p
                THEN 1 ELSE 0
      ]_vars

\* A, B, A, B started in turn: both counts are 2
C9_Witness ==
    \E u \in Users : \E a, b \in DOMAIN projects :
        /\ a # b
        /\ projects[a].user_id = u /\ projects[b].user_id = u
        /\ projects[a].tracking_count = 2
        /\ projects[b].tracking_count = 2
        /\ Len(events) >= 5

(* ------------------------------------------------------------------ *)
(* C10                                                                 *)
(* ------------------------------------------------------------------ *)

\* the actions of the rows of user u, in the order of the report
ActionsOf(log, u) ==
    LET r == day_entries(log, <<>>, u)
    IN  [k \in DOMAIN r |-> log[r[k].id].action]

\* the log of user u is the log of start_day, start_project, start_break,
\* continue_project, end_day: nothing else, and the project closed by
\* end_day itself
Scenario(u) ==
    /\ ActionsOf(events, u) = <<WORKDAY_START, PROJECT_START, BREAK_START,
            BREAK_END, PROJECT_RESUME, PROJECT_END, WORKDAY_END>>
    /\ LET r == day_entries(events, projects, u)
       IN  /\ r[4].timestamp = r[5].timestamp
           /\ r[6].timestamp = r[7].timestamp

\* C10: after start_day at T0, start_project(X) at T1, start_break at T2,
\* continue_project at T3 and end_day at T4 the report of the user has
\* exactly the sessions (X, T1, T2) and (X, T3, T4), none ongoing, the work
\* time (T2 - T1) + (T4 - T3), and exactly the break (T2, T3) of duration
\* T3 - T2, with no break left open.
C10_ScenarioReport ==
    \A u \in Users :
        Scenario(u) =>
            LET r == day_entries(events, projects, u)
                X == r[2].project_name
                T0 == r[1].timestamp
                T1 == r[2].timestamp
                T2 == r[3].timestamp
                T3 == r[4].timestamp
                T4 == r[7].timestamp
                report == calculate(r, clock)
            IN  /\ T0 < T1 /\ T1 < T2 /\ T2 < T3 /\ T3 < T4
                /\ X \in ProjectNames
                /\ report.sessions =
                    <<[project |-> X, start |-> T1, end |-> T2,
                       duration |-> T2 - T1, ongoing |-> FALSE],
                      [project |-> X, start |-> T3, end |-> T4,
                       duration |-> T4 - T3, ongoing |-> FALSE]>>
                /\ get_total_work_time(report) = (T2 - T1) + (T4 - T3)
                /\ report.breaks =
                    <<[start |-> T2, end |-> T3, duration |-> T3 - T2]>>
                /\ get_total_break_time(report) = T3 - T2
                /\ report.break_start = None
                /\ report.workday_start = T0
                /\ report.workday_end = T4

\* the five calls have been made and end_day has returned
C10_Witness ==
    /\ call.op = "end_day"
    /\ result.success
    /\ result.closed_project
    /\ call.user_id \in Users
    /\ Scenario(call.user_id)

(* ------------------------------------------------------------------ *)
(* C3                                                                  *)
(* ------------------------------------------------------------------ *)

\* the repository calls of end_day and start_project after which the call
\* adds at least one more row: WorkdayEnd or ProjectStart come last
RowsToCome ==
    {"is_break_active", "add_break_end", "get_active_project_id",
     "add_project_end", "add_workday_end", "add_project_start"}

\* C3: when end_day or start_project fails after it has added its first row
\* and before it has added its last, none of the rows it has added is in
\* the tracking table: never a part of the rows of a call is committed.
C3_AllOrNothing ==
    \A w \in Workers :
        (/\ workers[w].status = "failed"
         /\ workers[w].op \in {"end_day", "start_project"}
         /\ workers[w].pc \in RowsToCome) =>
            \A i \in workers[w].appended : i \notin DOMAIN events

(* ------------------------------------------------------------------ *)
(* C6                                                                  *)
(* ------------------------------------------------------------------ *)

\* C6: when the calls that ran side by side have all returned, each
\* project's tracking_count is the number of its ProjectStart rows.
C6_NoLostUpdate ==
    (\A w \in Workers : workers[w].status = "idle") =>
        \A p \in DOMAIN projects :
            projects[p].tracking_count = Cardinality(ProjectStarts(events, p))

(* ------------------------------------------------------------------ *)
(* C7                                                                  *)
(* ------------------------------------------------------------------ *)

\* two rows of the actions twice with no row of the actions between
\* committed between them
Twice(twice, between, project_id) ==
    \E i, j \in DOMAIN events :
        /\ i < j
        /\ events[i].action \in twice /\ events[j].action \in twice
        /\ events[i].project_id = project_id
        /\ events[j].project_id = project_id
        /\ \A k \in (i + 1)..(j - 1) :
            ~(events[k].action \in between
                /\ events[k].project_id = project_id)

\* C7: however the steps of two calls interleave, no day is started twice,
\* no project ended twice and no break ended twice: there are never two
\* WorkdayStart rows with no WorkdayEnd between them, two ProjectEnd rows of
\* a project with no ProjectStart or ProjectResume of it between them, or
\* two BreakEnd rows with no BreakStart between them.
C7_CheckThenAppend ==
    /\ ~Twice({WORKDAY_START}, {WORKDAY_END}, None)
    /\ ~Twice({BREAK_END}, {BREAK_START}, None)
    /\ \A p \in DOMAIN projects :
        ~Twice({PROJECT_END}, {PROJECT_START, PROJECT_RESUME}, p)

(* ------------------------------------------------------------------ *)
(* C11                                                                 *)
(* ------------------------------------------------------------------ *)

\* the entry that opened the session which entry k of the report closes:
\* the latest ProjectStart or ProjectResume before k with no ProjectEnd and
\* no WorkdayEnd between it and k; 0 when k closes no session
Opener(r, k) ==
    LET J == {j \in 1..(k - 1) :
                /\ r[j].action \in {PROJECT_START, PROJECT_RESUME}
                /\ \A i \in (j + 1)..(k - 1) :
                    r[i].action \notin {PROJECT_END, WORKDAY_END}}
    IN  IF r[k].action \in {PROJECT_END, BREAK_START, WORKDAY_END} /\ J # {}
        THEN Max(J) ELSE 0

RECURSIVE ClosedTime(_, _)
\* the sum, over the entries from k on that close a session, of the
\* timestamp of the entry less the timestamp of its opener
ClosedTime(r, k) ==
    IF k > Len(r) THEN 0
    ELSE (IF Opener(r, k) # 0
          THEN r[k].timestamp - r[Opener(r, k)].timestamp ELSE 0)
         + ClosedTime(r, k + 1)

\* the sessions of a report that are not ongoing
ClosedSessions(report) ==
    SelectSeq(report.sessions, LAMBDA x : ~x.ongoing)

\* C11: for the log of every user after every sequence of calls, the
\* durations of the closed sessions of the report add up to the sum, over
\* the closing events (ProjectEnd, BreakStart, WorkdayEnd), of the timestamp
\* of the event less the timestamp of the ProjectStart or ProjectResume
\* before it; there is one closed session for each such event.
C11_RoundTrip ==
    \A u \in Users :
        LET r == day_entries(events, projects, u)
            closed == ClosedSessions(calculate(r, clock))
        IN  /\ total(closed, 1) = ClosedTime(r, 1)
            /\ Len(closed) = Cardinality({k \in DOMAIN r : Opener(r, k) # 0})
            /\ \A n \in DOMAIN closed :
                closed[n].duration = closed[n].end - closed[n].start

\* a project paused by a break, then ended after the break was ended
\* without a resume: two closed sessions of one start
C11_Witness ==
    \E u \in Users :
        /\ ActionsOf(events, u) = <<WORKDAY_START, PROJECT_START,
                BREAK_START, BREAK_END, PROJECT_END>>
        /\ Len(ClosedSessions(
                calculate(day_entries(events, projects, u), clock))) = 2

(* ------------------------------------------------------------------ *)
(* C12                                                                 *)
(* ------------------------------------------------------------------ *)

\* the last project-related entry of the report is a ProjectStart or a
\* ProjectResume and no WorkdayEnd comes after it
OpenAtEnd(r) ==
    LET P == {k \in DOMAIN r : r[k].action \in
                {PROJECT_START, PROJECT_RESUME, PROJECT_END}}
    IN  /\ P # {}
        /\ r[Max(P)].action \in {PROJECT_START, PROJECT_RESUME}
        /\ \A k \in DOMAIN r : k > Max(P) => r[k].action # WORKDAY_END

\* C12: the report of every user has exactly one ongoing session, its last,
\* when the last project-related entry (ProjectStart, ProjectResume,
\* ProjectEnd) is a start or a resume with no end after it, and no ongoing
\* session otherwise.
C12_OneOngoing ==
    \A u \in Users :
        LET r == day_entries(events, projects, u)
            sessions == calculate(r, clock).sessions
            ongoing == {n \in DOMAIN sessions : sessions[n].ongoing}
        IN  /\ Cardinality(ongoing) <= 1
            /\ OpenAtEnd(r) <=> ongoing = {Len(sessions)} /\ ongoing # {0}
            /\ ~OpenAtEnd(r) <=> ongoing = {}

\* a user on a break: the session up to the break and the ongoing session
C12_Witness ==
    \E u \in Users :
        LET sessions ==
                calculate(day_entries(events, projects, u), clock).sessions
        IN  /\ is_break_active(events, u)
            /\ Len(sessions) = 2
            /\ ~sessions[1].ongoing
            /\ sessions[2].ongoing
            /\ sessions[2].end = clock

(* ------------------------------------------------------------------ *)
(* C13                                                                 *)
(* ------------------------------------------------------------------ *)

\* C13: a call for a user or a project that does not exist is answered with
\* 404, a call whose precondition does not hold with 400, and no call of
\* the engine whose storage works with 500: a call for an unknown user id
\* never has the outcome of a precondition violation.
C13_ErrorKinds ==
    call.op # "none" =>
        /\ call.user_id \notin Users =>
            status_code(result) = HTTP_404_NOT_FOUND
        /\ (call.user_id \in Users /\ result.raised) =>
            status_code(result) =
                IF result.message = "Project not found"
                THEN HTTP_404_NOT_FOUND ELSE HTTP_400_BAD_REQUEST
        /\ status_code(result) # HTTP_500_INTERNAL_SERVER_ERROR

(* ------------------------------------------------------------------ *)
(* C14                                                                 *)
(* ------------------------------------------------------------------ *)

\* C14: start_project of the project that is the active project of the user
\* does not raise, returns success = false and changes nothing: no row is
\* appended (no BreakEnd either, when a break is active), no tracking_count
\* and no last_active changes.
C14_AlreadyActiveNoOp ==
    [][\A u \in Users :
        (/\ Called("start_project", u)
         /\ ActiveProject(events, u) # None
         /\ projects[ActiveProject(events, u)].name = call'.project_name) =>
            /\ ~result'.raised
            /\ ~result'.success
            /\ StoreUnchanged
      ]_vars

(* ------------------------------------------------------------------ *)
(* C15                                                                 *)
(* ------------------------------------------------------------------ *)

\* the user has a project of that name
HasProject(u, name) ==
    \E p \in DOMAIN projects :
        projects[p].name = name /\ projects[p].user_id = u

\* C15: start_project succeeds only with an open workday; without one it
\* raises "no open workday" and changes nothing, creating no project even
\* with auto_create. With an open workday a name of no project of the user
\* raises "not found" and changes nothing when auto_create is off, and when
\* it is on the project is created for that user and started.
C15_StartProjectGate ==
    [][\A u \in Users :
        Called("start_project", u) =>
            /\ result'.success => DayOpen(events, u)
            /\ ~DayOpen(events, u) =>
                /\ result'.raised
                /\ result'.message =
                    "No open workday. Please start your day first."
                /\ StoreUnchanged
            /\ (/\ DayOpen(events, u)
                /\ ~HasProject(u, call'.project_name)
                /\ ~call'.auto_create) =>
                /\ result'.raised
                /\ result'.message = "Project not found"
                /\ StoreUnchanged
            /\ (/\ DayOpen(events, u)
                /\ ~HasProject(u, call'.project_name)
                /\ call'.auto_create) =>
                /\ result'.success
                /\ Len(projects') = Len(projects) + 1
                /\ \A p \in DOMAIN projects : projects'[p] = projects[p]
                /\ projects'[Len(projects')].name = call'.project_name
                /\ projects'[Len(projects')].user_id = u
                /\ projects'[Len(projects')].tracking_count = 1
                /\ result'.project_id = Len(projects')
                /\ Appended[Len(Appended)] = Tracking(u, PROJECT_START,
                        result'.timestamp, Len(projects'), NoMessage)
      ]_vars

\* a project was created for a user though the other user has one of the
\* same name
C15_Witness ==
    /\ call.op = "start_project"
    /\ call.auto_create
    /\ result.success
    /\ Len(projects) = 2
    /\ projects[1].name = projects[2].name
    /\ projects[1].user_id # projects[2].user_id
    /\ result.project_id = 2

(* ------------------------------------------------------------------ *)
(* C16                                                                 *)
(* ------------------------------------------------------------------ *)

\* C16: start_break succeeds exactly when a project of the user is active
\* and no break is; a success appends exactly one BreakStart row with the
\* message given, after which is_break_active is true; without an active
\* project it raises "no active project", during a break "break already
\* active"; so there are never two BreakStart rows of a user with no
\* BreakEnd between them.
C16_StartBreak ==
    [][\A u \in Users :
        Called("start_break", u) =>
            /\ result'.success <=>
                (ActiveProject(events, u) # None /\ ~BreakActive(events, u))
            /\ result'.success =>
                /\ Appended = <<Tracking(u, BREAK_START, result'.timestamp,
                        None, call'.message)>>
                /\ is_break_active(events', u)
            /\ ActiveProject(events, u) = None =>
                /\ result'.raised
                /\ result'.message = "No active project to pause for break"
            /\ (ActiveProject(events, u) # None /\ BreakActive(events, u)) =>
                /\ result'.raised
                /\ result'.message = "A break is already active"
            /\ ~result'.success => StoreUnchanged
            /\ \A i, j \in DOMAIN events' :
                (/\ i < j
                 /\ events'[i].user_id = u /\ events'[j].user_id = u
                 /\ events'[i].action = BREAK_START
                 /\ events'[j].action = BREAK_START) =>
                    \E k \in (i + 1)..(j - 1) :
                        events'[k].user_id = u /\ events'[k].action = BREAK_END
      ]_vars

(* ------------------------------------------------------------------ *)
(* C17                                                                 *)
(* ------------------------------------------------------------------ *)

\* the project to resume as the design defines it: with a BreakStart as the
\* latest break row, the project of the latest ProjectStart or
\* ProjectResume row that is older than it; else None
Resumable(log, u) ==
    LET B == OfUser(log, u, {BREAK_START, BREAK_END})
        S == {i \in OfUser(log, u, {PROJECT_START, PROJECT_RESUME}) :
                log[i].date_time < log[Latest(log, B)].date_time}
    IN  IF B = {} \/ ~BreakActive(log, u) \/ S = {} THEN None
        ELSE log[Latest(log, S)].project_id

Before(log, i) == SubSeq(log, 1, i - 1)

\* C18: while a break is active, get_last_project_before_break is the
\* project that was active when the BreakStart row was added, never None,
\* also when rows of the user carry equal timestamps; when the user's
\* latest break row is not a BreakStart it is None.
C18_LastProjectBeforeBreak ==
    \A u \in Users :
        LET B == OfUser(events, u, {BREAK_START, BREAK_END})
        IN  IF BreakActive(events, u)
            THEN /\ get_last_project_before_break(events, u) # None
                 /\ get_last_project_before_break(events, u) =
                        ActiveProject(Before(events, Latest(events, B)), u)
            ELSE get_last_project_before_break(events, u) = None

(* ------------------------------------------------------------------ *)
(* C19                                                                 *)
(* ------------------------------------------------------------------ *)

\* the actions of the rows a call has added
AppendedActions == {Appended[i].action : i \in DOMAIN Appended}

\* C19: end_day succeeds exactly when the user's day is open, whether the
\* user is idle, in a project or on a break, and otherwise changes nothing.
\* After a success has_open_day, is_any_project_active and is_break_active
\* are false, as the repository answers them and as the design defines
\* them (rows of one timestamp in id order), and the user's last row is
\* WorkdayEnd; a BreakEnd row is added only if a break was active and a
\* ProjectEnd row only if a project was active.
C19_EndDay ==
    [][\A u \in Users :
        Called("end_day", u) =>
            /\ result'.success <=> DayOpen(events, u)
            /\ ~result'.success => result'.raised /\ StoreUnchanged
            /\ result'.success =>
                /\ ~has_open_day(events', u)
                /\ ~is_any_project_active(events', u)
                /\ ~is_break_active(events', u)
                /\ ~DayOpen(events', u)
                /\ ActiveProject(events', u) = None
                /\ ~BreakActive(events', u)
                /\ LET S == {i \in DOMAIN events' : events'[i].user_id = u}
                   IN  /\ Max(S) = Len(events')
                       /\ events'[Max(S)].action = WORKDAY_END
                       /\ events'[Max(S)].date_time = result'.timestamp
                /\ AppendedActions \subseteq {BREAK_END, PROJECT_END, WORKDAY_END}
                /\ BREAK_END \in AppendedActions => BreakActive(events, u)
                /\ PROJECT_END \in AppendedActions =>
                        ActiveProject(events, u) # None
      ]_vars

(* ------------------------------------------------------------------ *)
(* C20                                                                 *)
(* ------------------------------------------------------------------ *)

\* C20: every row a call adds, the rows that close a break or a project
\* for it as well as its own row, carries one timestamp, and that is the
\* timestamp of the call's result; only a successful call adds rows.
C20_OneTimestamp ==
    [][/\ \A i \in DOMAIN Appended : \A j \in DOMAIN Appended :
            Appended[i].date_time = Appended[j].date_time
       /\ \A i \in DOMAIN Appended :
            /\ result'.success
            /\ result'.timestamp # None
            /\ Appended[i].date_time = result'.timestamp
      ]_vars

\* start_project during a break of another project has added three rows,
\* ProjectEnd, BreakEnd and ProjectStart, with the timestamp it returned
C20_Witness ==
    /\ call.op = "start_project"
    /\ result.success
    /\ Len(events) >= 6
    /\ events[Len(events) - 2].action = PROJECT_END
    /\ events[Len(events) - 1].action = BREAK_END
    /\ events[Len(events)].action = PROJECT_START
    /\ \A k \in 0..2 : events[Len(events) - k].date_time = result.timestamp
    /\ events[Len(events) - 3].date_time < result.timestamp

(* ------------------------------------------------------------------ *)
(* C21                                                                 *)
(* ------------------------------------------------------------------ *)

\* the rows of user v, in log order
EventsOf(log, v) == SelectSeq(log, LAMBDA row : row.user_id = v)

\* the project rows of user v with their ids
ProjectsOf(table, v) ==
    {<<p, table[p]>> : p \in {q \in DOMAIN table : table[q].user_id = v}}

\* the answers of all state queries for user v
QueriesOf(log, table, v) ==
    <<has_open_day(log, v), is_any_project_active(log, v),
      get_active_project_id(log, v), is_break_active(log, v),
      get_last_project_before_break(log, v),
      [p \in DOMAIN table |-> is_project_active(log, v, p)]>>

\* C21: a call for user u leaves every other user v as it was: v's rows,
\* v's projects with their tracking_count, v's last_active and the answer
\* of every state query about v. Every row the call adds belongs to u and
\* names no project of another user, and the only tracking_count it can
\* change is that of a project of u, also when v owns a project of the
\* same name.
C21_OtherUsersUntouched ==
    [][/\ \A v \in Users \ {call'.user_id} :
            /\ EventsOf(events', v) = EventsOf(events, v)
            /\ ProjectsOf(projects', v) = ProjectsOf(projects, v)
            /\ last_active'[v] = last_active[v]
            /\ events' # events =>
                    QueriesOf(events', projects, v) =
                        QueriesOf(events, projects, v)
       /\ \A i \in DOMAIN Appended :
            /\ Appended[i].user_id = call'.user_id
            /\ Appended[i].project_id # None =>
                    projects'[Appended[i].project_id].user_id = call'.user_id
       /\ \A p \in DOMAIN projects :
            projects'[p] # projects[p] => projects[p].user_id = call'.user_id
      ]_vars

\* user 2 has started a project of the name of the project user 1 is
\* working on: each has a project of that name, each is in their own
C21_Witness ==
    /\ call.op = "start_project"
    /\ call.user_id = 2
    /\ result.success
    /\ \E p, q \in DOMAIN projects :
        /\ projects[p].user_id = 1
        /\ projects[q].user_id = 2
        /\ projects[p].name = projects[q].name
        /\ projects[q].name = call.project_name
        /\ get_active_project_id(events, 1) = p
        /\ get_active_project_id(events, 2) = q

(* ------------------------------------------------------------------ *)
(* C22                                                                 *)
(* ------------------------------------------------------------------ *)

\* sequence a is the beginning of sequence b
IsPrefix(a, b) == Len(a) <= Len(b) /\ SubSeq(b, 1, Len(a)) = a

\* C22: the log only grows: over every call, successful or failed, the log
\* before it is the beginning of the log after it, and so is every user's
\* log; no row is removed and no row changes its user, action, timestamp
\* or project.
C22_AppendOnly ==
    [][/\ IsPrefix(events, events')
       /\ \A u \in Users : IsPrefix(EventsOf(events, u), EventsOf(events', u))
       /\ \A i \in DOMAIN events :
            /\ i \in DOMAIN events'
            /\ events'[i].user_id = events[i].user_id
            /\ events'[i].action = events[i].action
            /\ events'[i].date_time = events[i].date_time
            /\ events'[i].project_id = events[i].project_id
      ]_vars

\* a break has been ended by end_break: the BreakStart row is still there,
\* followed by the BreakEnd row
C22_Witness ==
    /\ call.op = "end_break"
    /\ result.success
    /\ Len(events) >= 4
    /\ events[Len(events) - 1].action = BREAK_START
    /\ events[Len(events)].action = BREAK_END
    /\ events[Len(events) - 1].date_time < events[Len(events)].date_time

(* ------------------------------------------------------------------ *)
(* C23                                                                 *)
(* ------------------------------------------------------------------ *)

\* the answer a state query gives when the log has no row it looks at
Default(op) ==
    IF op \in {"get_active_project_id", "get_last_project_before_break"}
    THEN None
    ELSE FALSE

\* the rows of user u that query op looks at first
Qualifying(op, u, p) ==
    CASE op = "has_open_day" -> OfUser(events, u, {WORKDAY_START, WORKDAY_END})
      [] op \in {"is_any_project_active", "get_active_project_id"} ->
            OfUser(events, u, {PROJECT_START, PROJECT_END, PROJECT_RESUME})
      [] op = "is_project_active" ->
            {i \in OfUser(events, u,
                    {PROJECT_START, PROJECT_END, PROJECT_RESUME}) :
                events[i].project_id = p}
      [] op \in {"get_last_project_before_break", "is_break_active"} ->
            OfUser(events, u, {BREAK_START, BREAK_END})

LastTimestamp(log, u) ==
    Max({log[i].date_time : i \in {j \in DOMAIN log : log[j].user_id = u}})

\* C24: a call that succeeds and adds rows sets the user's last_active to
\* the timestamp of these rows, which is the timestamp of its result; and
\* after every call, for every user who has a row, last_active is the
\* timestamp of that user's newest row, which is the last one of the user
\* in the log.
C24_LastActive ==
    [][/\ \A u \in Users :
            (call'.user_id = u /\ result'.success /\ Appended # <<>>) =>
                /\ last_active'[u] = result'.timestamp
                /\ \A i \in DOMAIN Appended :
                        Appended[i].date_time = last_active'[u]
       /\ \A u \in Users :
            LET rows == EventsOf(events', u)
            IN  IF rows = <<>>
                THEN last_active'[u] = None
                ELSE /\ last_active'[u] = LastTimestamp(events', u)
                     /\ last_active'[u] = rows[Len(rows)].date_time
      ]_vars

\* both users have rows, the user of the last call has just ended a
\* project, and each user's last_active is their own last timestamp
C24_Witness ==
    /\ call.op = "end_project"
    /\ result.success
    /\ \A u \in Users : EventsOf(events, u) # <<>>
    /\ last_active[call.user_id] = result.timestamp
    /\ \E v \in Users :
        /\ last_active[v] # None
        /\ last_active[v] < result.timestamp

(* ------------------------------------------------------------------ *)
(* C25                                                                 *)
(* ------------------------------------------------------------------ *)

\* what a successful end_project of project p has done
EndedProject(u, p) ==
    /\ result'.success
    /\ result'.project_id = p
    /\ Appended =
        <<Tracking(u, PROJECT_END, result'.timestamp, p, NoMessage)>>
    /\ ActiveProject(events', u) = None
    /\ ~is_any_project_active(events', u)
    /\ get_active_project_id(events', u) = None
    /\ BreakActive(events, u) =>
            BreakActive(events', u) /\ is_break_active(events', u)

FailedWith(message) ==
    result'.raised /\ result'.message = message /\ StoreUnchanged

\* C25: end_project with a name succeeds exactly when the user has a
\* project of that name and it is active, and raises "Project not found"
\* or "Project is not active" otherwise; without a name it succeeds exactly
\* when a project is active, and raises "No active project to end"
\* otherwise. A success adds exactly one ProjectEnd row for that project,
\* afterwards no project is active, and an active break stays active.
C25_EndProject ==
    [][\A u \in Users :
        Called("end_project", u) =>
            LET named == get_by_name(projects, call'.project_name, u)
                active == ActiveProject(events, u)
            IN  IF call'.project_name # NoName
                THEN /\ named = None => FailedWith("Project not found")
                     /\ (named # None /\ ~ProjectActive(events, u, named)) =>
                            FailedWith("Project is not active")
                     /\ (named # None /\ ProjectActive(events, u, named)) =>
                            EndedProject(u, named)
                ELSE /\ active = None => FailedWith("No active project to end")
                     /\ active # None => EndedProject(u, active)
      ]_vars

(* ------------------------------------------------------------------ *)
(* C26                                                                 *)
(* ------------------------------------------------------------------ *)

\* C26: end_break succeeds exactly when a break is active and otherwise
\* raises "No active break to end" and changes nothing. A success adds
\* exactly one row, the BreakEnd, and no project row: no ProjectResume
\* and no ProjectStart; afterwards is_break_active is false.
C26_EndBreak ==
    [][\A u \in Users :
        Called("end_break", u) =>
            /\ result'.success <=> BreakActive(events, u)
            /\ ~result'.success => FailedWith("No active break to end")
            /\ result'.success =>
                /\ Appended = <<Tracking(u, BREAK_END, result'.timestamp,
                                    None, NoMessage)>>
                /\ \A i \in DOMAIN Appended :
                        Appended[i].action \notin
                            {PROJECT_START, PROJECT_RESUME, PROJECT_END}
                /\ OfUser(events', u, {PROJECT_START, PROJECT_RESUME}) =
                        OfUser(events, u, {PROJECT_START, PROJECT_RESUME})
                /\ ~is_break_active(events', u)
                /\ ~BreakActive(events', u)
      ]_vars

\* a break of a project has been ended by end_break: the last row is the
\* BreakEnd and the user's last project row is still the ProjectStart
\* from before the break
C26_Witness ==
    /\ call.op = "end_break"
    /\ result.success
    /\ events[Len(events)].action = BREAK_END
    /\ events[Len(events)].date_time = result.timestamp
    /\ LET S == OfUser(events, call.user_id,
                    {PROJECT_START, PROJECT_END, PROJECT_RESUME})
       IN  /\ S # {}
           /\ events[Max(S)].action = PROJECT_START
           /\ events[Max(S)].date_time < result.timestamp

(* ------------------------------------------------------------------ *)
(* C27                                                                 *)
(* ------------------------------------------------------------------ *)

\* the project that was active when the user's latest break row was added
ProjectAtBreak(log, u) ==
    ActiveProject(
        Before(log, Latest(log, OfUser(log, u, {BREAK_START, BREAK_END}))), u)

\* the user's project has been ended since the latest break row
EndedSinceBreak(log, u) ==
    \E i \in OfUser(log, u, {PROJECT_END}) :
        i > Latest(log, OfUser(log, u, {BREAK_START, BREAK_END}))

\* C27 as stated: while a break lasts, is_any_project_active is true and
\* get_active_project_id is the project that was active when the break
\* started; and after end_break that project is still active.
C27_AsStated ==
    [][\A u \in Users :
        /\ BreakActive(events', u) =>
            /\ is_any_project_active(events', u)
            /\ get_active_project_id(events', u) = ProjectAtBreak(events', u)
        /\ (Called("end_break", u) /\ result'.success) =>
            /\ is_any_project_active(events', u)
            /\ get_active_project_id(events', u) = ProjectAtBreak(events, u)
      ]_vars

\* C27: break rows do not change the project state. start_break and
\* end_break leave the answers of is_any_project_active and
\* get_active_project_id as they were; while a break lasts, and unless the
\* project has been ended by end_project during it, is_any_project_active
\* is true and get_active_project_id is the project that was active when
\* the break started; and after end_break, with the same exception, that
\* project is still active.
C27_BreaksKeepProject ==
    [][\A u \in Users :
        /\ (call'.op \in {"start_break", "end_break"} /\ call'.user_id = u) =>
            /\ is_any_project_active(events', u) =
                    is_any_project_active(events, u)
            /\ get_active_project_id(events', u) =
                    get_active_project_id(events, u)
        /\ (Called("start_break", u) /\ result'.success) =>
            /\ is_any_project_active(events', u)
            /\ get_active_project_id(events', u) = ActiveProject(events, u)
            /\ get_active_project_id(events', u) # None
        /\ (BreakActive(events', u) /\ ~EndedSinceBreak(events', u)) =>
            /\ is_any_project_active(events', u)
            /\ get_active_project_id(events', u) = ProjectAtBreak(events', u)
            /\ get_active_project_id(events', u) # None
        /\ (Called("end_break", u) /\ result'.success
                /\ ~EndedSinceBreak(events, u)) =>
            /\ is_any_project_active(events', u)
            /\ get_active_project_id(events', u) = ProjectAtBreak(events, u)
      ]_vars

\* a break of a project has been started and ended again, and the project
\* from before the break is still the active one
C27_Witness ==
    /\ call.op = "end_break"
    /\ result.success
    /\ Len(events) >= 4
    /\ events[Len(events) - 1].action = BREAK_START
    /\ get_active_project_id(events, call.user_id) # None
    /\ get_active_project_id(events, call.user_id) =
            ActiveProject(Before(events, Len(events) - 1), call.user_id)

(* ------------------------------------------------------------------ *)
(* C28                                                                 *)
(* ------------------------------------------------------------------ *)

\* the entries of a report input that are of the given action
EntriesOf(r, action) == {k \in DOMAIN r : r[k].action = action}

\* the n-th smallest member of a set of numbers
Nth(S, n) == CHOOSE k \in S : Cardinality({j \in S : j < k}) = n - 1

\* the BreakStart that the BreakEnd entry k ends: the latest BreakStart
\* before k; 0 when there is none or another BreakEnd lies between
Starter(r, k) ==
    LET J == {j \in EntriesOf(r, BREAK_START) : j < k}
    IN  IF J # {} /\ \A i \in EntriesOf(r, BREAK_END) : ~(Max(J) < i /\ i < k)
        THEN Max(J) ELSE 0

RECURSIVE BreakTime(_, _)
\* the sum, over the BreakEnd entries from k on, of the timestamp of the
\* entry less the timestamp of its BreakStart
BreakTime(r, k) ==
    IF k > Len(r) THEN 0
    ELSE (IF r[k].action = BREAK_END /\ Starter(r, k) # 0
          THEN r[k].timestamp - r[Starter(r, k)].timestamp ELSE 0)
         + BreakTime(r, k + 1)

\* C28: for the log of every user after every sequence of calls, the
\* report has exactly one break for each BreakEnd event, in their order:
\* it ends at the BreakEnd, starts at the BreakStart that this BreakEnd is
\* the next BreakEnd of, and lasts end less start; a BreakStart with no
\* BreakEnd after it gives no break; and the total break time is the sum
\* of these durations.
C28_Breaks ==
    \A u \in Users :
        LET r == day_entries(events, projects, u)
            report == calculate(r, clock)
            ends == EntriesOf(r, BREAK_END)
        IN  /\ Len(report.breaks) = Cardinality(ends)
            /\ \A n \in DOMAIN report.breaks :
                LET k == Nth(ends, n)
                IN  /\ Starter(r, k) # 0
                    /\ report.breaks[n].start = r[Starter(r, k)].timestamp
                    /\ report.breaks[n].end = r[k].timestamp
                    /\ report.breaks[n].duration =
                        report.breaks[n].end - report.breaks[n].start
            /\ Len(report.breaks) =
                Cardinality({j \in EntriesOf(r, BREAK_START) :
                                \E k \in ends : j < k})
            /\ get_total_break_time(report) = BreakTime(r, 1)

\* a user who took a break, ended it and is on a second break: the report
\* has the first break only
C28_Witness ==
    \E u \in Users :
        /\ ActionsOf(events, u) = <<WORKDAY_START, PROJECT_START,
                BREAK_START, BREAK_END, BREAK_START>>
        /\ Len(calculate(day_entries(events, projects, u), clock).breaks) = 1
        /\ get_total_break_time(
                calculate(day_entries(events, projects, u), clock)) > 0

(* ------------------------------------------------------------------ *)
(* C29                                                                 *)
(* ------------------------------------------------------------------ *)

\* the ids of the rows of user u from the latest WorkdayStart on, in the
\* order of the log
SinceDayStart(log, u) ==
    LET start == Latest(log, OfUser(log, u, {WORKDAY_START}))
    IN  SelectSeq([i \in DOMAIN log |-> i],
                  LAMBDA i : log[i].user_id = u /\ i >= start)

\* C29: today's events agree with has_open_day: the list is empty exactly
\* when the user has no open day, and otherwise it is exactly the user's
\* rows from the latest WorkdayStart to the end of the log, oldest first,
\* rows of one timestamp in the order they were added.
C29_TodayTracking ==
    \A u \in Users :
        LET today == get_today_tracking(events, projects, u)
        IN  /\ today = <<>> <=> ~has_open_day(events, u)
            /\ today = <<>> <=> ~DayOpen(events, u)
            /\ DayOpen(events, u) =>
                /\ [k \in DOMAIN today |-> today[k].id] =
                        SinceDayStart(events, u)
                /\ \A k \in DOMAIN today :
                    /\ today[k].action = events[today[k].id].action
                    /\ today[k].timestamp = events[today[k].id].date_time

(* ------------------------------------------------------------------ *)
(* C30                                                                 *)
(* ------------------------------------------------------------------ *)

\* C30: after every sequence of calls made one after the other, each user
\* has at most one project for which is_project_active is true, and
\* is_project_active is true of a project exactly when it is the one that
\* get_active_project_id returns.
C30_OneActiveProject ==
    \A u \in Users :
        /\ Cardinality({p \in DOMAIN projects :
                            is_project_active(events, u, p)}) <= 1
        /\ \A p \in DOMAIN projects :
            is_project_active(events, u, p) <=>
                get_active_project_id(events, u) = p

(* ------------------------------------------------------------------ *)
(* C31                                                                 *)
(* ------------------------------------------------------------------ *)

\* C31: after every sequence of calls made one after the other, a project
\* or a break is active only inside an open workday: is_any_project_active
\* implies has_open_day and is_break_active implies has_open_day, as the
\* repository answers them and as the design defines them (rows of one
\* timestamp in id order), and no single project is active, by
\* is_project_active, outside an open workday.
C31_ActiveOnlyInOpenDay ==
    \A u \in Users :
        /\ is_any_project_active(events, u) => has_open_day(events, u)
        /\ is_break_active(events, u) => has_open_day(events, u)
        /\ ActiveProject(events, u) # None => DayOpen(events, u)
        /\ BreakActive(events, u) => DayOpen(events, u)
        /\ \A p \in DOMAIN projects :
            is_project_active(events, u, p) => has_open_day(events, u)

(* ------------------------------------------------------------------ *)
(* C32                                                                 *)
(* ------------------------------------------------------------------ *)

\* the rows of user u whose action is one of the given, in log order
RowsOf(log, u, actions) ==
    SelectSeq(log, LAMBDA row : row.user_id = u /\ row.action \in actions)

\* a sequence of rows alternates between the actions first and second,
\* beginning with first
Alternates(rows, first, second) ==
    \A k \in DOMAIN rows :
        rows[k].action = IF k % 2 = 1 THEN first ELSE second

\* C32: in the log after every sequence of calls made one after the other,
\* for each user, the workday rows are WorkdayStart, WorkdayEnd,
\* WorkdayStart, ..., the break rows are BreakStart, BreakEnd, BreakStart,
\* ..., and the project row before every ProjectEnd of a project is a
\* ProjectStart or a ProjectResume of that project.
C32_Alternation ==
    \A u \in Users :
        /\ Alternates(RowsOf(events, u, {WORKDAY_START, WORKDAY_END}),
                WORKDAY_START, WORKDAY_END)
        /\ Alternates(RowsOf(events, u, {BREAK_START, BREAK_END}),
                BREAK_START, BREAK_END)
        /\ LET rows == RowsOf(events, u,
                        {PROJECT_START, PROJECT_END, PROJECT_RESUME})
           IN  \A k \in DOMAIN rows :
                rows[k].action = PROJECT_END =>
                    /\ k > 1
                    /\ rows[k - 1].action \in {PROJECT_START, PROJECT_RESUME}
                    /\ rows[k - 1].project_id = rows[k].project_id

(* ------------------------------------------------------------------ *)
(* C33                                                                 *)
(* ------------------------------------------------------------------ *)

\* user u is on a break and the project that was active when the break
\* started has been ended since
EndedDuringBreak(log, u) ==
    /\ BreakActive(log, u)
    /\ ProjectAtBreak(log, u) # None
    /\ \E i \in OfUser(log, u, {PROJECT_END}) :
        /\ i > Latest(log, OfUser(log, u, {BREAK_START, BREAK_END}))
        /\ log[i].project_id = ProjectAtBreak(log, u)

\* C33: continue_project does not resume a project that the user ended
\* during the break: when end_project has ended, during the active break,
\* the project that was active when the break started, continue_project
\* raises "No recent project to resume" and adds no ProjectResume row of
\* that project.
C33_NoResumeOfEnded ==
    [][\A u \in Users :
        (Called("continue_project", u) /\ EndedDuringBreak(events, u)) =>
            /\ result'.raised
            /\ result'.message = "No recent project to resume"
            /\ \A i \in DOMAIN Appended :
                ~(/\ Appended[i].action = PROJECT_RESUME
                  /\ Appended[i].project_id = ProjectAtBreak(events, u))
      ]_vars

(* ------------------------------------------------------------------ *)
(* C34                                                                 *)
(* ------------------------------------------------------------------ *)

\* the intervals a and b, each from start to end, share more than a point
Overlap(a, b) == a.start < b.end /\ b.start < a.end

\* C34: for the log of every user after every sequence of calls, no two
\* closed sessions of the report overlap and no closed session overlaps a
\* break of the report: no instant is counted as work twice and no instant
\* of a break is counted as work.
C34_NoOverlap ==
    \A u \in Users :
        LET report == calculate(day_entries(events, projects, u), clock)
            closed == ClosedSessions(report)
        IN  /\ \A m \in DOMAIN closed : \A n \in DOMAIN closed :
                m # n => ~Overlap(closed[m], closed[n])
            /\ \A n \in DOMAIN closed : \A b \in DOMAIN report.breaks :
                ~Overlap(closed[n], report.breaks[b])

(* ------------------------------------------------------------------ *)
(* C35                                                                 *)
(* ------------------------------------------------------------------ *)

\* what the status view has to show for user u by the state queries
StatusByQueries(log, table, u) ==
    IF ~has_open_day(log, u) THEN "No active workday"
    ELSE IF is_break_active(log, u) THEN "On break"
    ELSE IF get_active_project_id(log, u) # None
    THEN table[get_active_project_id(log, u)].name
    ELSE "Not working on any project"

\* C35: for every user with an open workday, after every sequence of
\* calls, the status view shows "On break" exactly when is_break_active is
\* true, and otherwise the name of the project that get_active_project_id
\* returns, or no project exactly when that is none.
C35_StatusView ==
    \A u \in Users :
        has_open_day(events, u) =>
            show_status(events, projects, u) =
                StatusByQueries(events, projects, u)

\* a break of a project has been started and ended by end_break: the
\* project is still active, and the status view shows no project
C35_Witness ==
    \E u \in Users :
        /\ ActionsOf(events, u) =
                <<WORKDAY_START, PROJECT_START, BREAK_START, BREAK_END>>
        /\ get_active_project_id(events, u) # None
        /\ show_status(events, projects, u) = "Not working on any project"

(* ------------------------------------------------------------------ *)
(* C36                                                                 *)
(* ------------------------------------------------------------------ *)

\* C36: for the log of every user after every sequence of calls and every
\* project of the user, the total work time derived from the input of the
\* project report (the rows of that project only) equals the total of
\* that project derived from all rows of the user.
C36_ProjectReport ==
    \A u \in Users : \A p \in DOMAIN projects :
        projects[p].user_id = u =>
            get_total_work_time(
                calculate(project_entries(events, projects, u, p), clock)) =
            get_project_totals(
                calculate(day_entries(events, projects, u), clock),
                projects[p].name)

\* a project paused by a break, resumed by continue_project and ended:
\* the project report has less work time than the daily report
C36_Witness ==
    \E u \in Users : \E p \in DOMAIN projects :
        /\ projects[p].user_id = u
        /\ ActionsOf(events, u) = <<WORKDAY_START, PROJECT_START,
                BREAK_START, BREAK_END, PROJECT_RESUME, PROJECT_END>>
        /\ get_total_work_time(
                calculate(project_entries(events, projects, u, p), clock)) <
           get_project_totals(
                calculate(day_entries(events, projects, u), clock),
                projects[p].name)

(* ------------------------------------------------------------------ *)
(* C37                                                                 *)
(* ------------------------------------------------------------------ *)

\* C37: the result of a successful end_day says what it closed:
\* closed_project is true exactly when a project was active when end_day
\* was called, and closed_break is true exactly when a break was.
C37_EndDayResult ==
    [][\A u \in Users :
        (Called("end_day", u) /\ result'.success) =>
            /\ result'.closed_project <=> ActiveProject(events, u) # None
            /\ result'.closed_break <=> BreakActive(events, u)
      ]_vars

\* end_day has ended a day during a break, has added the BreakEnd row for
\* it, and its result says that no break was closed
C37_Witness ==
    /\ call.op = "end_day"
    /\ result.success
    /\ ~result.closed_break
    /\ Len(events) >= 5
    /\ events[Len(events) - 3].action = BREAK_START
    /\ events[Len(events) - 2].action = BREAK_END
    /\ events[Len(events) - 2].message = "Auto-closed at end of day"

(* ------------------------------------------------------------------ *)
(* C38                                                                 *)
(* ------------------------------------------------------------------ *)

\* C38: the start_project endpoint answers a request for the project that is
\* already the active project of the user in an open day neither with 500
\* nor as a success: the engine's result with success = false is passed on
\* as a response that is not 500 and that reports the failure. The endpoint
\* builds its only 200 response with success = True written out, so a
\* response that reports the failure is one whose status is not 200.
C38_AlreadyActiveResponse ==
    [][\A u \in Users :
        ( /\ Called("start_project", u)
          /\ call'.auto_create
          /\ DayOpen(events, u)
          /\ ActiveProject(events, u) # None
          /\ ActiveProject(events, u) =
                get_by_name(projects, call'.project_name, u) ) =>
            /\ status_code(result') # HTTP_500_INTERNAL_SERVER_ERROR
            /\ status_code(result') # HTTP_200_OK
      ]_vars

\* start_project of the active project has returned the result without a
\* timestamp, nothing was added, and the endpoint has answered with 500
C38_Witness ==
    /\ call.op = "start_project"
    /\ call.auto_create
    /\ ~result.raised
    /\ ~result.success
    /\ result.message = "Project is already active"
    /\ result.timestamp = None
    /\ status_code(result) = HTTP_500_INTERNAL_SERVER_ERROR
    /\ ActiveProject(events, call.user_id) # None
    /\ ActiveProject(events, call.user_id) =
            get_by_name(projects, call.project_name, call.user_id)

====
